---- MODULE Spec2Model ----
(***************************************************************************)
(* Render cache of the Obsidian markdown service                           *)
(* (backend/src/obsidian_reader/services/markdown.py).                     *)
(*                                                                         *)
(* The model covers CacheStats, MarkdownCache (a lock-guarded wrapper      *)
(* around cachetools.LRUCache keyed by a digest of vault id, note path     *)
(* and modification time) and MarkdownService.render_cached.  Every        *)
(* action is one complete call of a public method, executed sequentially.  *)
(*                                                                         *)
(* Optional values are sequences: <<>> is None, <<x>> is the value x.      *)
(***************************************************************************)
EXTENDS Integers, Sequences, FiniteSets, TLC

(* ------------------------------ bounds --------------------------------- *)

\* capacity handed to MarkdownCache(max_size=...); the application uses 500
MaxSize == 2

\* at most this many MarkdownCache.get calls between two clear() calls
MaxGets == 3

\* largest hits and misses of a CacheStats object built by hand
MaxCount == 8

(* ------------------------------ inputs --------------------------------- *)

\* vault ids and note paths; both may contain the ':' the key is joined with
VaultIds == {"a", "a:b"}

NotePaths == {"c", "b:c"}

None == <<>>

\* the note versions requested, as (vault id, note path, modified_at);
\* modified_at is None or a datetime, modelled by its seconds field.
\* Note c of vault a is seen without a time and at two times; vault a:b has
\* a note of the same path; the texts "a:b" + "c" and "a" + "b:c" join alike.
Requests ==
    { <<"a", "c", None>>, <<"a", "c", <<1>>>>, <<"a", "c", <<2>>>>,
      <<"a:b", "c", <<1>>>>, <<"a", "b:c", <<1>>>> }

\* markdown sources handed to render_cached by the cache calls: a source is
\* the sequence of its blocks, which blank lines separate in the text; here
\* the empty text and a text of one plain word
Contents == {<<"">>, <<"x">>}

(* --------------------------- pure functions ---------------------------- *)

Digit == <<"0", "1", "2", "3", "4", "5", "6", "7", "8", "9">>

\* datetime.isoformat() of 2024-01-01 00:00:SS (no microseconds, naive)
isoformat(dt) == "2024-01-01T00:00:" \o Digit[(dt \div 10) + 1] \o Digit[(dt % 10) + 1]

\* hashlib.sha256(...).hexdigest(): a fixed-length digest, taken to be
\* collision-free, so a digest is represented by the text it was made from
sha256_hexdigest(data) == <<"sha256", data>>

\* key derivation with the modification time left out (for comparison)
make_key_without_mtime(vault_id, note_path, modified_at) ==
    sha256_hexdigest(vault_id \o ":" \o note_path)

\* key derivation with the vault id left out (for comparison)
make_key_without_vault(vault_id, note_path, modified_at) ==
    LET mtime_str == IF modified_at # None THEN isoformat(modified_at[1]) ELSE "none"
    IN  sha256_hexdigest(note_path \o ":" \o mtime_str)

\* MarkdownCache._make_key
make_key(vault_id, note_path, modified_at) ==
    LET mtime_str == IF modified_at # None THEN isoformat(modified_at[1]) ELSE "none"
        key_data  == vault_id \o ":" \o note_path \o ":" \o mtime_str
    IN  sha256_hexdigest(key_data)

(* ------------------- cachetools.LRUCache (self._cache) ----------------- *)
\* The store is the sequence of its entries [key, value], least recently
\* used first, as the ordered dictionary inside LRUCache keeps them.

Keys(c) == {c[i].key : i \in 1..Len(c)}

IndexOf(c, k) == CHOOSE i \in 1..Len(c) : c[i].key = k

Without(c, k) == SelectSeq(c, LAMBDA e : e.key # k)

\* a lookup that never marks the entry as used (for comparison)
lru_get_untouched(c, k) ==
    IF k \in Keys(c)
    THEN [cache |-> c, ret |-> <<c[IndexOf(c, k)].value>>]
    ELSE [cache |-> c, ret |-> None]

\* LRUCache.get(key): the value or None; a found entry becomes the most
\* recently used one
lru_get(c, k) ==
    IF k \in Keys(c)
    THEN [cache |-> Append(Without(c, k), c[IndexOf(c, k)]),
          ret   |-> <<c[IndexOf(c, k)].value>>]
    ELSE [cache |-> c, ret |-> None]

\* an insertion that never evicts (for comparison)
lru_setitem_unbounded(c, maxsize, k, v) ==
    Append(Without(c, k), [key |-> k, value |-> v])

\* an insertion that leaves a key already stored at its place (for comparison)
lru_setitem_in_place(c, maxsize, k, v) ==
    IF k \in Keys(c)
    THEN [i \in 1..Len(c) |-> IF c[i].key = k THEN [key |-> k, value |-> v] ELSE c[i]]
    ELSE LET excess == IF Len(c) + 1 > maxsize THEN Len(c) + 1 - maxsize ELSE 0
         IN  Append(SubSeq(c, excess + 1, Len(c)), [key |-> k, value |-> v])

\* LRUCache.__setitem__(key, value), maxsize >= 1: a new key first pops
\* least recently used entries until there is room; the entry written
\* becomes the most recently used one
lru_setitem(c, maxsize, k, v) ==
    LET excess == IF k \notin Keys(c) /\ Len(c) + 1 > maxsize
                  THEN Len(c) + 1 - maxsize ELSE 0
        kept   == SubSeq(c, excess + 1, Len(c))
    IN  Append(Without(kept, k), [key |-> k, value |-> v])

(* ------------------------------ CacheStats ----------------------------- *)

CacheStats(h, m, s, ms) == [hits |-> h, misses |-> m, size |-> s, max_size |-> ms]

\* a float is kept as the exact fraction num/den (den > 0);
\* a ZeroDivisionError is the value with ok = FALSE
Float(n, d) == [ok |-> TRUE, num |-> n, den |-> d]

ZeroDivisionError == [ok |-> FALSE, num |-> 0, den |-> 1]

\* int / int
TrueDiv(a, b) == IF b = 0 THEN ZeroDivisionError ELSE Float(a, b)

\* float * int
Times(f, k) == IF f.ok THEN Float(f.num * k, f.den) ELSE f

\* the rate computed against the misses only (for comparison)
hit_rate_over_misses(stats) ==
    IF stats.hits + stats.misses > 0
    THEN Times(TrueDiv(stats.hits, stats.misses), 100)
    ELSE Float(0, 1)

\* CacheStats.hit_rate
hit_rate(stats) ==
    LET total == stats.hits + stats.misses
    IN  IF total > 0 THEN Times(TrueDiv(stats.hits, total), 100) ELSE Float(0, 1)

(* ----------------------------- MarkdownCache --------------------------- *)
\* self is [cache, hits, misses, max_size]; a method yields the object
\* after the call and the value returned.  Each method body runs under
\* self._lock.

\* MarkdownCache.__init__
MarkdownCache(max_size) ==
    [cache |-> <<>>, hits |-> 0, misses |-> 0, max_size |-> max_size]

\* a lookup that counts only hits (for comparison)
get_uncounted_miss(self, vault_id, note_path, modified_at) ==
    LET key == make_key(vault_id, note_path, modified_at)
        r   == lru_get(self.cache, key)
    IN  IF r.ret # None
        THEN [self |-> [self EXCEPT !.cache = r.cache, !.hits = @ + 1], ret |-> r.ret]
        ELSE [self |-> [self EXCEPT !.cache = r.cache], ret |-> r.ret]

\* MarkdownCache.get
get(self, vault_id, note_path, modified_at) ==
    LET key == make_key(vault_id, note_path, modified_at)
        r   == lru_get(self.cache, key)
    IN  IF r.ret # None
        THEN [self |-> [self EXCEPT !.cache = r.cache, !.hits = @ + 1], ret |-> r.ret]
        ELSE [self |-> [self EXCEPT !.cache = r.cache, !.misses = @ + 1], ret |-> r.ret]

\* MarkdownCache.set
set(self, vault_id, note_path, modified_at, html_content) ==
    LET key == make_key(vault_id, note_path, modified_at)
    IN  [self |-> [self EXCEPT !.cache = lru_setitem(self.cache, self.max_size, key, html_content)],
         ret  |-> None]

\* an invalidate that never removes anything (for comparison)
invalidate_nothing(self, vault_id, note_path) ==
    [self |-> self, ret |-> <<0>>]

\* MarkdownCache.invalidate; note_path is None or <<path>>
invalidate(self, vault_id, note_path) ==
    IF note_path = None
    THEN [self |-> [self EXCEPT !.cache = <<>>], ret |-> <<Len(self.cache)>>]
    ELSE [self |-> self, ret |-> <<0>>]

\* a clear that keeps the counters (for comparison)
clear_keeping_counters(self) ==
    [self |-> [self EXCEPT !.cache = <<>>], ret |-> None]

\* a clear that reports how many entries it dropped (for comparison)
clear_returning_count(self) ==
    [self |-> [self EXCEPT !.cache = <<>>, !.hits = 0, !.misses = 0],
     ret  |-> <<Len(self.cache)>>]

\* MarkdownCache.clear
clear(self) ==
    [self |-> [self EXCEPT !.cache = <<>>, !.hits = 0, !.misses = 0], ret |-> None]

\* MarkdownCache.get_stats
get_stats(self) ==
    [self |-> self,
     ret  |-> <<CacheStats(self.hits, self.misses, Len(self.cache), self.max_size)>>]

(* ------------------------- markdown.Markdown --------------------------- *)
\* self.md, the parser object shared by all renders.  Its state is what
\* reset() clears: the footnotes collected by the footnotes extension, as
\* [id, text] in the order of their definition, and the stash of raw HTML
\* blocks.  A source is read block by block; the blocks that occur are
\*    "x"             a paragraph of one plain word
\*    "t[^1]"         a paragraph that refers to footnote 1
\*    "[^1]: n"       the definition of footnote 1 (likewise 2)
\*    "'''\nc\n'''"   a fenced code block without a language (the strings here
\*                    write the backquote of the fence as ')
\*    ""              nothing

\* markdown.Markdown(): the parser before ObsidianExtension has registered.
\* Each registry holds stages by name and priority; of the library's own
\* stages the two that stash raw HTML blocks and put them back are kept.
Markdown ==
    [footnotes      |-> <<>>,
     stash          |-> <<>>,
     preprocessors  |-> {[name |-> "html_block", priority |-> 20]},
     inlinePatterns |-> {},
     postprocessors |-> {[name |-> "raw_html", priority |-> 30]}]

\* an extension that registers the embed pass below the others (for comparison)
extendMarkdown_embed_late(md) ==
    [md EXCEPT
       !.preprocessors  = @ \cup {[name |-> "embed", priority |-> 15],
                                  [name |-> "callout", priority |-> 30],
                                  [name |-> "block_math", priority |-> 25]},
       !.inlinePatterns = @ \cup {[name |-> "wiki_link", priority |-> 200],
                                  [name |-> "tag", priority |-> 198],
                                  [name |-> "inline_math", priority |-> 197]},
       !.postprocessors = @ \cup {[name |-> "task_list", priority |-> 25]}]

\* ObsidianExtension.extendMarkdown
extendMarkdown(md) ==
    [md EXCEPT
       !.preprocessors  = @ \cup {[name |-> "embed", priority |-> 35],
                                  [name |-> "callout", priority |-> 30],
                                  [name |-> "block_math", priority |-> 25]},
       !.inlinePatterns = @ \cup {[name |-> "wiki_link", priority |-> 200],
                                  [name |-> "tag", priority |-> 198],
                                  [name |-> "inline_math", priority |-> 197]},
       !.postprocessors = @ \cup {[name |-> "task_list", priority |-> 25]}]

\* self.md as MarkdownService.__init__ builds it
FreshMd == extendMarkdown(Markdown)

\* Markdown.reset(): the registries stay
md_reset(md) == [md EXCEPT !.footnotes = <<>>, !.stash = <<>>]

IsBlank(block) == block = ""

IsFence(block) == block = "'''\nc\n'''"

IsRawHtml(block) == block = "<div class=\"code-block\"><pre><code>c\n</code></pre></div>"

IsFootnoteDef(block) == block \in {"[^1]: n", "[^2]: n"}

FootnoteId(block) == IF block = "[^1]: n" THEN "1" ELSE "2"

HasFootnoteRef(block) == block = "t[^1]"

FootnoteIds(md) == {md.footnotes[i].id : i \in 1..Len(md.footnotes)}

\* FootnoteExtension.setFootnote: a dictionary entry, kept at its place when
\* the id is already defined
SetFootnote(md, id, text) ==
    IF id \in FootnoteIds(md)
    THEN [md EXCEPT !.footnotes =
             [i \in 1..Len(@) |-> IF @[i].id = id THEN [id |-> id, text |-> text] ELSE @[i]]]
    ELSE [md EXCEPT !.footnotes = Append(@, [id |-> id, text |-> text])]

\* the block parse: definitions go to the footnotes, raw HTML to the stash
RECURSIVE ParseBlocks(_, _)
ParseBlocks(md, blocks) ==
    IF blocks = <<>> THEN md
    ELSE LET b == Head(blocks)
             next == IF IsFootnoteDef(b) THEN SetFootnote(md, FootnoteId(b), "n")
                     ELSE IF IsRawHtml(b) THEN [md EXCEPT !.stash = Append(@, b)]
                     ELSE md
         IN  ParseBlocks(next, Tail(blocks))

FootnoteRef(id) ==
    "<sup id=\"fnref:" \o id \o "\"><a class=\"footnote-ref\" href=\"#fn:" \o id
       \o "\">" \o id \o "</a></sup>"

\* the HTML of one block once all blocks are parsed; a footnote reference
\* becomes a link only when the parser knows the footnote
BlockHtml(md, b) ==
    IF IsBlank(b) \/ IsFootnoteDef(b) THEN ""
    ELSE IF IsRawHtml(b) THEN b
    ELSE IF HasFootnoteRef(b)
         THEN IF "1" \in FootnoteIds(md) THEN "<p>t" \o FootnoteRef("1") \o "</p>"
                                         ELSE "<p>" \o b \o "</p>"
    ELSE "<p>" \o b \o "</p>"

RECURSIVE FootnoteItems(_)
FootnoteItems(fs) ==
    IF fs = <<>> THEN ""
    ELSE "<li id=\"fn:" \o Head(fs).id \o "\">" \o Head(fs).text \o "</li>\n"
            \o FootnoteItems(Tail(fs))

\* the list the footnotes extension appends when the parser holds footnotes
FootnotesDiv(md) ==
    IF md.footnotes = <<>> THEN ""
    ELSE "<div class=\"footnote\">\n<ol>\n" \o FootnoteItems(md.footnotes) \o "</ol>\n</div>"

RECURSIVE JoinLines(_)
JoinLines(parts) ==
    IF parts = <<>> THEN ""
    ELSE IF Len(parts) = 1 THEN parts[1]
    ELSE parts[1] \o "\n" \o JoinLines(Tail(parts))

\* a source convert returns "" for without touching the parser
AllBlank(source) == \A i \in 1..Len(source) : IsBlank(source[i])

\* the output written from the parsed blocks and what the parser holds
Serialize(md, source) ==
    LET htmls == [i \in 1..Len(source) |-> BlockHtml(md, source[i])]
        parts == SelectSeq(Append(htmls, FootnotesDiv(md)), LAMBDA h : h # "")
    IN  JoinLines(parts)

\* Markdown.convert(source)
md_convert(md, source) ==
    IF AllBlank(source)
    THEN [md |-> md, ret |-> ""]
    ELSE LET parsed == ParseBlocks(md, source)
         IN  [md |-> parsed, ret |-> Serialize(parsed, source)]

(* ---------------------------- MarkdownService -------------------------- *)
\* self is [md, cache]: the parser and the MarkdownCache object.

\* MarkdownService.__init__
MarkdownService(cache_max_size) ==
    [md |-> FreshMd, cache |-> MarkdownCache(cache_max_size)]

\* MarkdownService._highlight_code_blocks: a fence without a language
\* becomes an escaped pre/code block
highlight_code_blocks(content) ==
    [i \in 1..Len(content) |->
        IF IsFence(content[i])
        THEN "<div class=\"code-block\"><pre><code>" \o "c\n" \o "</code></pre></div>"
        ELSE content[i]]

\* a render that starts from whatever the parser holds (for comparison)
render_without_reset(self, content) ==
    LET c == md_convert(self.md, highlight_code_blocks(content))
    IN  [self |-> [self EXCEPT !.md = c.md], ret |-> c.ret]

\* MarkdownService.render
render(self, content) ==
    LET c == md_convert(md_reset(self.md), highlight_code_blocks(content))
    IN  [self |-> [self EXCEPT !.md = c.md], ret |-> c.ret]

\* A cached call also yields renders, the number of times it ran render.

\* a cached render that never stores its result (for comparison)
render_cached_without_store(self, content, vault_id, note_path, modified_at) ==
    LET g == get(self.cache, vault_id, note_path, modified_at)
    IN  IF g.ret # None
        THEN [self |-> [self EXCEPT !.cache = g.self], ret |-> g.ret, renders |-> 0]
        ELSE LET r == render(self, content)
             IN  [self |-> [r.self EXCEPT !.cache = g.self], ret |-> <<r.ret>>, renders |-> 1]

\* a cached render that takes an empty cached page for a miss (for comparison)
render_cached_if_truthy(self, content, vault_id, note_path, modified_at) ==
    LET g == get(self.cache, vault_id, note_path, modified_at)
    IN  IF g.ret # None /\ g.ret # <<"">>
        THEN [self |-> [self EXCEPT !.cache = g.self], ret |-> g.ret, renders |-> 0]
        ELSE LET r == render(self, content)
                 s == set(g.self, vault_id, note_path, modified_at, r.ret)
             IN  [self |-> [r.self EXCEPT !.cache = s.self], ret |-> <<r.ret>>, renders |-> 1]

\* a cached render that converts the source itself on a miss (for comparison)
render_cached_bare_convert(self, content, vault_id, note_path, modified_at) ==
    LET g == get(self.cache, vault_id, note_path, modified_at)
    IN  IF g.ret # None
        THEN [self |-> [self EXCEPT !.cache = g.self], ret |-> g.ret, renders |-> 0]
        ELSE LET c == md_convert(self.md, content)
                 s == set(g.self, vault_id, note_path, modified_at, c.ret)
             IN  [self |-> [md |-> c.md, cache |-> s.self], ret |-> <<c.ret>>, renders |-> 1]

\* a cached render that renders and stores on every call (for comparison)
render_cached_always_render(self, content, vault_id, note_path, modified_at) ==
    LET g == get(self.cache, vault_id, note_path, modified_at)
        r == render(self, content)
        s == set(g.self, vault_id, note_path, modified_at, r.ret)
    IN  [self |-> [r.self EXCEPT !.cache = s.self], ret |-> <<r.ret>>,
         renders |-> IF g.ret # None THEN 0 ELSE 1]

\* MarkdownService.render_cached
render_cached(self, content, vault_id, note_path, modified_at) ==
    LET g == get(self.cache, vault_id, note_path, modified_at)
    IN  IF g.ret # None
        THEN [self |-> [self EXCEPT !.cache = g.self], ret |-> g.ret, renders |-> 0]
        ELSE LET r == render(self, content)
                 s == set(g.self, vault_id, note_path, modified_at, r.ret)
             IN  [self |-> [r.self EXCEPT !.cache = s.self], ret |-> <<r.ret>>, renders |-> 1]

\* rendered HTML values handed to set by the cache calls
Htmls == {render(MarkdownService(1), c).ret : c \in Contents}

(* ------------------------------- state --------------------------------- *)

VARIABLES
    cache,      \* MarkdownCache._cache: entries [key, value], least recently used first
    hits,       \* MarkdownCache._hits
    misses,     \* MarkdownCache._misses
    max_size,   \* MarkdownCache._max_size
    last,       \* observer: the call that produced this state, with its result
    accessLog,  \* observer: stored keys in the order of their last successful get or set
    writer,     \* observer: for each stored key the (vault id, path, mtime) last written under it
    gets,       \* observer: MarkdownCache.get calls since construction or the last clear
    stats,      \* a CacheStats object in the hands of a caller
    rate,       \* None, or <<stats.hit_rate>> once the caller has read it
    md,         \* MarkdownService.md: the parser state
    lock,       \* MarkdownCache._lock: 0 when free, else the thread that holds it
    pc,         \* for each thread, the statement it is about to run
    frame,      \* for each thread, the locals of the call it is in or has returned from
    calls,      \* observer: calls begun by the threads
    input,      \* None, or the text handed to one processor of ObsidianExtension
    output,     \* None, or <<what the processor made of input>>
    file,       \* the note file: the contents it has held, one per modification time
    note        \* the locals of the request that serves the note, and where it stands

tvars == <<lock, pc, frame, calls>>

ivars == <<input, output>>

nvars == <<file, note>>

vars == <<cache, hits, misses, max_size, last, accessLog, writer, gets, stats, rate, md, tvars,
          ivars, nvars>>

MaxCalls == 3

Threads == {1, 2}

\* the locals of a thread: op and its arguments, reg (a counter value read
\* but not yet written back), html (the page a render produced), ret, and
\* three observations: during (the threads that were rendering when this
\* call took the lock), seen (the value of gets when get_stats returned)
\* and removed (the entries the store held when this call emptied it)
Frame(op, request, content, reg, html, ret, during, seen) ==
    [op |-> op, request |-> request, content |-> content, reg |-> reg,
     html |-> html, ret |-> ret, during |-> during, seen |-> seen, removed |-> 0]

NoFrame == Frame("none", <<>>, <<>>, 0, "", None, {}, 0)

\* no thread has called anything
NoThreads ==
    /\ lock = 0
    /\ pc = [t \in Threads |-> "idle"]
    /\ frame = [t \in Threads |-> NoFrame]
    /\ calls = 0

Self == [cache |-> cache, hits |-> hits, misses |-> misses, max_size |-> max_size]

Service == [md |-> md, cache |-> Self]

\* the object fields on construction
Starts(self) ==
    /\ cache    = self.cache
    /\ hits     = self.hits
    /\ misses   = self.misses
    /\ max_size = self.max_size

\* the object fields after a call
Becomes(self) ==
    /\ cache'    = self.cache
    /\ hits'     = self.hits
    /\ misses'   = self.misses
    /\ max_size' = self.max_size

\* What is recorded of a call: its name and arguments, the value returned,
\* how often it ran the pipeline, whether its key was stored when it began,
\* how many entries it removed, and whether it repeats the call before it
\* which had found its key absent.
Call(op, vault_id, note_path, modified_at, arg, ret, renders, present, removed, again) ==
    [op |-> op, vault_id |-> vault_id, note_path |-> note_path,
     modified_at |-> modified_at, arg |-> arg, ret |-> ret, renders |-> renders,
     present |-> present, removed |-> removed, again |-> again]

Removed(c) == Cardinality(Keys(cache) \ Keys(c))

\* the log after key k was read or written and the store became c
Touched(log, k, c) ==
    SelectSeq(Append(SelectSeq(log, LAMBDA x : x # k), k), LAMBDA x : x \in Keys(c))

\* the log after a call that used no entry left the store at c
Untouched(log, c) == SelectSeq(log, LAMBDA x : x \in Keys(c))

\* the writers after triple t was written under key k and the store became c
Written(w, k, t, c) == [x \in Keys(c) |-> IF x = k THEN t ELSE w[x]]

\* the writers after a call that wrote nothing left the store at c
Unwritten(w, c) == [x \in Keys(c) |-> w[x]]

\* no text has been handed to a processor
NoInput ==
    /\ input = None
    /\ output = None

\* markdown_service = MarkdownService(cache_max_size): an empty cache
ServiceStarts ==
    /\ Starts(MarkdownService(MaxSize).cache)
    /\ md = MarkdownService(MaxSize).md
    /\ NoThreads
    /\ last = Call("init", "", None, None, "", None, 0, FALSE, 0, FALSE)
    /\ accessLog = <<>>
    /\ writer = <<>>
    /\ gets = 0
    /\ stats = CacheStats(0, 0, 0, 0)
    /\ rate = None

\* the note file as first written, at modification time 1, and no request
NoteStarts ==
    /\ file = << <<"x">> >>
    /\ note = [pc |-> "idle", content |-> <<>>, modified_at |-> None]

Init ==
    /\ ServiceStarts
    /\ NoInput
    /\ NoteStarts

(* ------------------------------ actions -------------------------------- *)

\* cache.get(vault_id, note_path, modified_at)
CallGet(vault_id, note_path, modified_at) ==
    /\ gets < MaxGets
    /\ LET r == get(Self, vault_id, note_path, modified_at)
           k == make_key(vault_id, note_path, modified_at)
       IN  /\ Becomes(r.self)
           /\ last' = Call("get", vault_id, <<note_path>>, modified_at, "", r.ret, 0,
                           k \in Keys(cache), Removed(r.self.cache), FALSE)
           /\ accessLog' = IF r.ret # None THEN Touched(accessLog, k, r.self.cache)
                                           ELSE Untouched(accessLog, r.self.cache)
           /\ writer' = Unwritten(writer, r.self.cache)
    /\ gets' = gets + 1
    /\ UNCHANGED <<stats, rate, md, tvars, ivars, nvars>>

\* cache.set(vault_id, note_path, modified_at, html_content)
CallSet(vault_id, note_path, modified_at, html_content) ==
    /\ LET r == set(Self, vault_id, note_path, modified_at, html_content)
           k == make_key(vault_id, note_path, modified_at)
       IN  /\ Becomes(r.self)
           /\ last' = Call("set", vault_id, <<note_path>>, modified_at, html_content, r.ret, 0,
                           k \in Keys(cache), Removed(r.self.cache), FALSE)
           /\ accessLog' = Touched(accessLog, k, r.self.cache)
           /\ writer' = Written(writer, k, <<vault_id, note_path, modified_at>>, r.self.cache)
    /\ UNCHANGED <<gets, stats, rate, md, tvars, ivars, nvars>>

\* service.render_cached(content, vault_id, note_path, modified_at),
\* render_markdown_cached(content, vault_id, note_path, modified_at)
CallRenderCached(content, vault_id, note_path, modified_at) ==
    /\ gets < MaxGets
    /\ LET r == render_cached(Service, content, vault_id, note_path, modified_at)
           k == make_key(vault_id, note_path, modified_at)
           again == /\ last.op = "render_cached"
                    /\ last.vault_id = vault_id
                    /\ last.note_path = <<note_path>>
                    /\ last.modified_at = modified_at
                    /\ last.arg = content
                    /\ ~last.present
       IN  /\ Becomes(r.self.cache)
           /\ md' = r.self.md
           /\ last' = Call("render_cached", vault_id, <<note_path>>, modified_at, content, r.ret,
                           r.renders, k \in Keys(cache), Removed(r.self.cache.cache), again)
           /\ accessLog' = Touched(accessLog, k, r.self.cache.cache)
           /\ writer' = IF r.renders > 0
                        THEN Written(writer, k, <<vault_id, note_path, modified_at>>,
                                     r.self.cache.cache)
                        ELSE Unwritten(writer, r.self.cache.cache)
    /\ gets' = gets + 1
    /\ UNCHANGED <<stats, rate, tvars, ivars, nvars>>

\* cache.invalidate(vault_id, note_path), note_path None or <<path>>
CallInvalidate(vault_id, note_path) ==
    /\ LET r == invalidate(Self, vault_id, note_path)
       IN  /\ Becomes(r.self)
           /\ last' = Call("invalidate", vault_id, note_path, None, "", r.ret, 0,
                           FALSE, Removed(r.self.cache), FALSE)
           /\ accessLog' = Untouched(accessLog, r.self.cache)
           /\ writer' = Unwritten(writer, r.self.cache)
    /\ UNCHANGED <<gets, stats, rate, md, tvars, ivars, nvars>>

\* cache.clear(), service.clear_cache(), clear_cache()
CallClear ==
    /\ LET r == clear(Self)
       IN  /\ Becomes(r.self)
           /\ last' = Call("clear", "", None, None, "", r.ret, 0,
                           FALSE, Removed(r.self.cache), FALSE)
           /\ accessLog' = Untouched(accessLog, r.self.cache)
           /\ writer' = Unwritten(writer, r.self.cache)
    /\ gets' = 0
    /\ UNCHANGED <<stats, rate, md, tvars, ivars, nvars>>

\* cache.get_stats(), service.get_cache_stats(), get_cache_stats()
CallGetStats ==
    /\ LET r == get_stats(Self)
       IN  /\ Becomes(r.self)
           /\ last' = Call("get_stats", "", None, None, "", r.ret, 0,
                           FALSE, Removed(r.self.cache), FALSE)
           /\ accessLog' = Untouched(accessLog, r.self.cache)
           /\ writer' = Unwritten(writer, r.self.cache)
    /\ UNCHANGED <<gets, stats, rate, md, tvars, ivars, nvars>>

Next ==
    \/ \E q \in Requests : CallGet(q[1], q[2], q[3])
    \/ \E q \in Requests, h \in Htmls : CallSet(q[1], q[2], q[3], h)
    \/ \E c \in Contents, q \in Requests : CallRenderCached(c, q[1], q[2], q[3])
    \/ \E v \in VaultIds, np \in {None} \cup {<<p>> : p \in NotePaths} : CallInvalidate(v, np)
    \/ CallClear
    \/ CallGetStats

Spec == Init /\ [][Next]_vars

(* ------------------- CacheStats built by a caller ---------------------- *)
\* CacheStats is a plain dataclass: any counters can be put into one, as
\* test_cache_hit_rate does, and hit_rate is then read from it.

InitStats ==
    /\ Starts(MarkdownService(MaxSize).cache)
    /\ md = MarkdownService(MaxSize).md
    /\ NoThreads
    /\ last = Call("init", "", None, None, "", None, 0, FALSE, 0, FALSE)
    /\ accessLog = <<>>
    /\ writer = <<>>
    /\ gets = 0
    /\ stats \in {CacheStats(h, m, 0, MaxSize) : h \in 0..MaxCount, m \in 0..MaxCount}
    /\ rate = None
    /\ NoInput
    /\ NoteStarts

\* stats.hit_rate
ReadHitRate ==
    /\ rate = None
    /\ rate' = <<hit_rate(stats)>>
    /\ UNCHANGED <<cache, hits, misses, max_size, last, accessLog, writer, gets, stats, md, tvars, ivars, nvars>>

NextStats == ReadHitRate

SpecStats == InitStats /\ [][NextStats]_vars

(* ------------------- renders on one service instance ------------------- *)
\* One MarkdownService whose render and render_cached are called in any
\* order, on sources that leave footnotes and raw HTML in the parser.

Documents ==
    { <<"">>,
      <<"x">>,
      <<"t[^1]">>,
      <<"t[^1]", "[^1]: n">>,
      <<"[^2]: n">>,
      <<"'''\nc\n'''">> }

RenderRequests == {<<"a", "c", <<1>>>>, <<"a", "c", <<2>>>>}

\* service.render(content)
CallRender(content) ==
    /\ LET r == render(Service, content)
       IN  /\ md' = r.self.md
           /\ last' = Call("render", "", None, None, content, <<r.ret>>, 1, FALSE, 0, FALSE)
    /\ UNCHANGED <<cache, hits, misses, max_size, accessLog, writer, gets, stats, rate, tvars, ivars, nvars>>

NextRender ==
    \/ \E d \in Documents : CallRender(d)
    \/ \E d \in Documents, q \in RenderRequests : CallRenderCached(d, q[1], q[2], q[3])

SpecRender == Init /\ [][NextRender]_vars

(* --------------------- threads sharing the service --------------------- *)
\* Threads call the cache and render_cached of one service.  A step is one
\* statement of the code, with two exceptions: "self._hits += 1" is a read
\* of the counter followed by a write, and a render is reset, block parse
\* and serialisation, since other threads can run between those.  A body
\* under "with self._lock" begins with a step that takes the lock and ends
\* with a step that gives it back.  In this specification gets counts the
\* get calls that returned since construction or the last clear.

ThreadRequests == {<<"a", "c", <<1>>>>, <<"a", "b:c", <<1>>>>}

ThreadDocuments == {<<"t[^1]", "[^1]: n">>, <<"[^2]: n">>}

\* a lock that excludes nobody (for comparison)
acquirable_always(l, t) == TRUE

\* RLock.acquire returns at once for thread t
acquirable(l, t) == l = 0

\* a release that leaves the lock with its holder (for comparison)
release_kept(l, t) == l

\* RLock.release by thread t
release(l, t) == 0

\* the threads inside MarkdownService.render
Rendering == {t \in Threads : pc[t] \in {"md_reset", "md_parse", "md_serialize"}}

Goes(t, label, f) ==
    /\ pc' = [pc EXCEPT ![t] = label]
    /\ frame' = [frame EXCEPT ![t] = f]

Begins(t) ==
    /\ pc[t] = "idle"
    /\ calls < MaxCalls
    /\ calls' = calls + 1

CacheOnly == UNCHANGED <<max_size, last, accessLog, writer, stats, rate, md, ivars, nvars>>

\* MarkdownCache.get up to the counter read, for cache.get(...) and for the
\* lookup of render_cached(content, ...)
GetLookup(t, op, content, q) ==
    /\ Begins(t)
    /\ acquirable(lock, t)
    /\ lock' = t
    /\ LET r == lru_get(cache, make_key(q[1], q[2], q[3]))
       IN  /\ cache' = r.cache
           /\ Goes(t, "get_count",
                   Frame(op, q, content, IF r.ret # None THEN hits ELSE misses, "",
                         r.ret, Rendering, 0))
    /\ UNCHANGED <<hits, misses, gets>>
    /\ CacheOnly

\* MarkdownCache.get from the counter write to its return
GetCount(t) ==
    /\ pc[t] = "get_count"
    /\ IF frame[t].ret # None
       THEN hits' = frame[t].reg + 1 /\ UNCHANGED misses
       ELSE misses' = frame[t].reg + 1 /\ UNCHANGED hits
    /\ lock' = release(lock, t)
    /\ gets' = gets + 1
    /\ IF frame[t].op = "render_cached" /\ frame[t].ret = None
       THEN Goes(t, "md_reset", frame[t])
       ELSE Goes(t, "idle", frame[t])
    /\ UNCHANGED <<cache, calls>>
    /\ CacheOnly

\* MarkdownService.render: self.md.reset() and _highlight_code_blocks
MdReset(t) ==
    /\ pc[t] = "md_reset"
    /\ md' = md_reset(md)
    /\ Goes(t, "md_parse", [frame[t] EXCEPT !.content = highlight_code_blocks(@)])
    /\ UNCHANGED <<cache, hits, misses, max_size, last, accessLog, writer, gets, stats, rate,
                   lock, calls, ivars, nvars>>

\* MarkdownService.render: the block parse of self.md.convert
MdParse(t) ==
    /\ pc[t] = "md_parse"
    /\ md' = IF AllBlank(frame[t].content) THEN md ELSE ParseBlocks(md, frame[t].content)
    /\ Goes(t, "md_serialize", frame[t])
    /\ UNCHANGED <<cache, hits, misses, max_size, last, accessLog, writer, gets, stats, rate,
                   lock, calls, ivars, nvars>>

\* MarkdownService.render: the output of self.md.convert
MdSerialize(t) ==
    /\ pc[t] = "md_serialize"
    /\ Goes(t, "set",
            [frame[t] EXCEPT !.html = IF AllBlank(frame[t].content) THEN ""
                                      ELSE Serialize(md, frame[t].content)])
    /\ UNCHANGED <<cache, hits, misses, max_size, last, accessLog, writer, gets, stats, rate,
                   md, lock, calls, ivars, nvars>>

\* cache.set(vault_id, note_path, modified_at, html_content) is called
SetCall(t, q, h) ==
    /\ Begins(t)
    /\ Goes(t, "set", Frame("set", q, <<>>, 0, h, None, {}, 0))
    /\ UNCHANGED <<cache, hits, misses, gets, lock>>
    /\ CacheOnly

\* MarkdownCache.set, for cache.set(...) and for the store of render_cached
SetStore(t) ==
    /\ pc[t] = "set"
    /\ acquirable(lock, t)
    /\ lock' = release(lock, t)
    /\ LET q == frame[t].request
       IN  cache' = lru_setitem(cache, max_size, make_key(q[1], q[2], q[3]), frame[t].html)
    /\ Goes(t, "idle",
            [frame[t] EXCEPT !.ret = IF frame[t].op = "render_cached" THEN <<frame[t].html>>
                                     ELSE None,
                             !.during = Rendering \ {t}])
    /\ UNCHANGED <<hits, misses, gets, calls>>
    /\ CacheOnly

\* MarkdownCache.clear: self._cache.clear()
ClearStore(t) ==
    /\ Begins(t)
    /\ acquirable(lock, t)
    /\ lock' = t
    /\ cache' = <<>>
    /\ Goes(t, "clear_hits",
            [Frame("clear", <<>>, <<>>, 0, "", None, Rendering, 0) EXCEPT !.removed = Len(cache)])
    /\ UNCHANGED <<hits, misses, gets>>
    /\ CacheOnly

\* MarkdownCache.clear: self._hits = 0
ClearHits(t) ==
    /\ pc[t] = "clear_hits"
    /\ hits' = 0
    /\ Goes(t, "clear_misses", frame[t])
    /\ UNCHANGED <<cache, misses, gets, lock, calls>>
    /\ CacheOnly

\* MarkdownCache.clear: self._misses = 0, to its return
ClearMisses(t) ==
    /\ pc[t] = "clear_misses"
    /\ misses' = 0
    /\ gets' = 0
    /\ lock' = release(lock, t)
    /\ Goes(t, "idle", frame[t])
    /\ UNCHANGED <<cache, hits, calls>>
    /\ CacheOnly

\* MarkdownCache.invalidate(vault_id): count = len(self._cache)
InvalidateCount(t, vault_id) ==
    /\ Begins(t)
    /\ acquirable(lock, t)
    /\ lock' = t
    /\ Goes(t, "invalidate_clear",
            Frame("invalidate", <<vault_id>>, <<>>, Len(cache), "", None, Rendering, 0))
    /\ UNCHANGED <<cache, hits, misses, gets>>
    /\ CacheOnly

\* MarkdownCache.invalidate(vault_id): self._cache.clear(), to its return
InvalidateClear(t) ==
    /\ pc[t] = "invalidate_clear"
    /\ cache' = <<>>
    /\ lock' = release(lock, t)
    /\ Goes(t, "idle", [frame[t] EXCEPT !.ret = <<frame[t].reg>>])
    /\ UNCHANGED <<hits, misses, gets, calls>>
    /\ CacheOnly

\* MarkdownCache.get_stats: hits=self._hits, for get_cache_stats() and for
\* the stats = get_cache_stats() of the route clear_render_cache
StatsHits(t, op) ==
    /\ Begins(t)
    /\ acquirable(lock, t)
    /\ lock' = t
    /\ Goes(t, "stats_rest", Frame(op, <<>>, <<>>, hits, "", None, Rendering, 0))
    /\ UNCHANGED <<cache, hits, misses, gets>>
    /\ CacheOnly

\* MarkdownCache.get_stats: the other fields, to its return
StatsRest(t) ==
    /\ pc[t] = "stats_rest"
    /\ lock' = release(lock, t)
    /\ Goes(t, IF frame[t].op = "clear_render_cache" THEN "clear_cache" ELSE "idle",
            [frame[t] EXCEPT !.ret = <<CacheStats(frame[t].reg, misses, Len(cache), max_size)>>,
                             !.seen = gets])
    /\ UNCHANGED <<cache, hits, misses, gets, calls>>
    /\ CacheOnly

\* clear_render_cache: cleared_count = stats.size is taken, and
\* clear_cache() runs MarkdownCache.clear up to self._cache.clear()
ClearCacheStore(t) ==
    /\ pc[t] = "clear_cache"
    /\ acquirable(lock, t)
    /\ lock' = t
    /\ cache' = <<>>
    /\ Goes(t, "clear_hits", [frame[t] EXCEPT !.during = Rendering, !.removed = Len(cache)])
    /\ UNCHANGED <<hits, misses, gets, calls>>
    /\ CacheOnly

NextThreads ==
    \E t \in Threads :
        \/ \E q \in ThreadRequests : GetLookup(t, "get", <<>>, q)
        \/ \E q \in ThreadRequests, d \in ThreadDocuments : GetLookup(t, "render_cached", d, q)
        \/ GetCount(t)
        \/ MdReset(t)
        \/ MdParse(t)
        \/ MdSerialize(t)
        \/ \E q \in ThreadRequests : SetCall(t, q, "<p>x</p>")
        \/ SetStore(t)
        \/ ClearStore(t)
        \/ ClearHits(t)
        \/ ClearMisses(t)
        \/ InvalidateCount(t, "a")
        \/ InvalidateClear(t)
        \/ StatsHits(t, "get_stats")
        \/ StatsHits(t, "clear_render_cache")
        \/ ClearCacheStore(t)
        \/ StatsRest(t)

SpecThreads == Init /\ [][NextThreads]_vars

(* ------------------------------ text ----------------------------------- *)
\* A text handed to a processor is the sequence of its characters.

MaxPart == 2

MaxHeading == 3

\* the non-empty texts of at most n characters over an alphabet
TextsUpTo(alphabet, n) == UNION {[1..k -> alphabet] : k \in 1..n}

Optional(S) == {None} \cup {<<x>> : x \in S}

\* the character at position i, "" past either end
At(s, i) == IF i \in 1..Len(s) THEN s[i] ELSE ""

\* the python slice of s from position a up to, not including, position b
Slice(s, a, b) == SubSeq(s, a, b - 1)

Least(S) == CHOOSE x \in S : \A y \in S : x <= y

Greatest(S) == CHOOSE x \in S : \A y \in S : x >= y

\* where a greedy run [^stop]* that starts at position i ends: the first
\* position at or after i that holds a character of stop, or the end
RunEnd(s, i, stop) ==
    CHOOSE j \in i..(Len(s) + 1) :
        /\ \A k \in i..(j - 1) : s[k] \notin stop
        /\ j = Len(s) + 1 \/ s[j] \in stop

\* str.strip()
strip(s) ==
    LET black == {i \in 1..Len(s) : s[i] # " "}
    IN  IF black = {} THEN <<>> ELSE SubSeq(s, Least(black), Greatest(black))

\* the letters str.lower() changes, and what it makes of them
UpperCase ==
    <<"A", "B", "C", "D", "E", "F", "G", "H", "I", "J", "K", "L", "M",
      "N", "O", "P", "Q", "R", "S", "T", "U", "V", "W", "X", "Y", "Z">>

LowerCase ==
    <<"a", "b", "c", "d", "e", "f", "g", "h", "i", "j", "k", "l", "m",
      "n", "o", "p", "q", "r", "s", "t", "u", "v", "w", "x", "y", "z">>

LowerOf(c) ==
    IF \E i \in 1..26 : UpperCase[i] = c
    THEN LowerCase[CHOOSE i \in 1..26 : UpperCase[i] = c]
    ELSE c

\* str.lower()
lower(s) == [i \in 1..Len(s) |-> LowerOf(s[i])]

\* str.replace(old, new) for a one-character old
replace(s, old, new) == [i \in 1..Len(s) |-> IF s[i] = old THEN new ELSE s[i]]

\* the truth value of an optional text: None and "" are false
Truthy(x) == x # None /\ x[1] # <<>>

(* ----------------------------- wiki-links ------------------------------ *)

\* a match of WIKI_LINK_PATTERN that starts at position i, or None.  Each of
\* the three groups is a greedy run that stops at the first character its
\* class excludes; a shorter run would end before a character that none of
\* "#", "|" and "]]" can match, so backtracking finds no other match.
WIKI_LINK_PATTERN(s, i) ==
    LET p1 == i + 2
        e1 == RunEnd(s, p1, {"]", "|", "#"})
        h  == At(s, e1) = "#" /\ RunEnd(s, e1 + 1, {"]", "|"}) > e1 + 1
        e2 == IF h THEN RunEnd(s, e1 + 1, {"]", "|"}) ELSE e1
        a  == At(s, e2) = "|" /\ RunEnd(s, e2 + 1, {"]"}) > e2 + 1
        e3 == IF a THEN RunEnd(s, e2 + 1, {"]"}) ELSE e2
    IN  IF /\ At(s, i) = "[" /\ At(s, i + 1) = "["
           /\ e1 > p1
           /\ At(s, e3) = "]" /\ At(s, e3 + 1) = "]"
        THEN <<[start |-> i, end |-> e3 + 2,
                group1 |-> <<Slice(s, p1, e1)>>,
                group2 |-> IF h THEN <<Slice(s, e1 + 1, e2)>> ELSE None,
                group3 |-> IF a THEN <<Slice(s, e2 + 1, e3)>> ELSE None]>>
        ELSE None

\* a handler that shows the heading before it looks at the alias (for comparison)
WikiLink_handleMatch_heading_first(m) ==
    LET target  == strip(m.group1[1])
        heading == IF Truthy(m.group2) THEN <<strip(m.group2[1])>> ELSE None
        alias   == IF Truthy(m.group3) THEN <<strip(m.group3[1])>> ELSE None
        anchor  == replace(lower(heading[1]), " ", "-")
    IN  [class |-> "internal-link",
         href  |-> <<"/note/">> \o target
                      \o (IF Truthy(heading) THEN <<"#">> \o anchor ELSE <<>>),
         data_target |-> target,
         text  |-> IF Truthy(heading) THEN target \o <<" ", ">", " ">> \o heading[1]
                   ELSE IF Truthy(alias) THEN alias[1]
                   ELSE target]

\* WikiLinkInlineProcessor.handleMatch: the <a> element; "/note/" is kept as
\* one piece of the href
WikiLink_handleMatch(m) ==
    LET target  == strip(m.group1[1])
        heading == IF Truthy(m.group2) THEN <<strip(m.group2[1])>> ELSE None
        alias   == IF Truthy(m.group3) THEN <<strip(m.group3[1])>> ELSE None
        anchor  == replace(lower(heading[1]), " ", "-")
    IN  [class |-> "internal-link",
         href  |-> <<"/note/">> \o target
                      \o (IF Truthy(heading) THEN <<"#">> \o anchor ELSE <<>>),
         data_target |-> target,
         text  |-> IF Truthy(alias) THEN alias[1]
                   ELSE IF Truthy(heading) THEN target \o <<" ", ">", " ">> \o heading[1]
                   ELSE target]

\* the inline processor on a text: the element for the leftmost match, or None
WikiLinkInlineProcessor(s) ==
    LET starts == {i \in 1..Len(s) : WIKI_LINK_PATTERN(s, i) # None}
    IN  IF starts = {} THEN None
        ELSE <<WikiLink_handleMatch(WIKI_LINK_PATTERN(s, Least(starts))[1])>>

\* the parts a wiki-link is written from
WikiLinkParts ==
    [target  : TextsUpTo({"a", "B", " "}, MaxPart),
     heading : Optional(TextsUpTo({"h", "M", " "}, MaxHeading)),
     alias   : Optional(TextsUpTo({"x", "#", " "}, MaxPart))]

\* [[target(#heading)?(|alias)?]]
WikiLinkText(p) ==
    <<"[", "[">> \o p.target
        \o (IF p.heading = None THEN <<>> ELSE <<"#">> \o p.heading[1])
        \o (IF p.alias = None THEN <<>> ELSE <<"|">> \o p.alias[1])
        \o <<"]", "]">>

Handed(inputs) ==
    /\ ServiceStarts
    /\ NoteStarts
    /\ input \in {<<i>> : i \in inputs}
    /\ output = None

Made(out) ==
    /\ input # None
    /\ output = None
    /\ output' = <<out>>
    /\ UNCHANGED <<cache, hits, misses, max_size, last, accessLog, writer, gets, stats, rate, md,
                   tvars, nvars, input>>

InitWikiLink == Handed({[parts |-> p, text |-> WikiLinkText(p)] : p \in WikiLinkParts})

ApplyWikiLink == Made(WikiLinkInlineProcessor(input[1].text))

NextWikiLink == ApplyWikiLink

SpecWikiLink == InitWikiLink /\ [][NextWikiLink]_vars

(* ------------------------------- embeds -------------------------------- *)
\* The HTML a preprocessor writes is a sequence as well: the fixed markup
\* in pieces of several characters, the interpolated texts character by
\* character, so that no interpolated text can be taken for markup.  An
\* icon is written by its code point, as in "U+1F4C4".

\* html.escape(s), quote=True: each special character becomes its entity
escape(s) ==
    [i \in 1..Len(s) |->
        CASE s[i] = "&"  -> "&amp;"
          [] s[i] = "<"  -> "&lt;"
          [] s[i] = ">"  -> "&gt;"
          [] s[i] = "\"" -> "&quot;"
          [] s[i] = "'"  -> "&#x27;"
          [] OTHER       -> s[i]]

\* str.endswith
endswith(s, suffix) ==
    /\ Len(s) >= Len(suffix)
    /\ SubSeq(s, Len(s) - Len(suffix) + 1, Len(s)) = suffix

\* EmbedPreprocessor._replace_embed: image_extensions
image_extensions ==
    { <<".", "p", "n", "g">>, <<".", "j", "p", "g">>,
      <<".", "j", "p", "e", "g">>, <<".", "g", "i", "f">>,
      <<".", "w", "e", "b", "p">>, <<".", "s", "v", "g">>,
      <<".", "b", "m", "p">> }

\* a match of EmbedPreprocessor.EMBED_PATTERN that starts at position i, or
\* None: "!" and then the wiki-link pattern
EMBED_PATTERN(s, i) ==
    IF At(s, i) = "!" /\ WIKI_LINK_PATTERN(s, i + 1) # None
    THEN <<[WIKI_LINK_PATTERN(s, i + 1)[1] EXCEPT !.start = i]>>
    ELSE None

\* x or y on optional texts, y a text
Or(x, y) == IF Truthy(x) THEN x[1] ELSE y

\* the <img> written for an image embed
ImgTag(target, alt) ==
    <<"<img src=\"/api/vault/attachment/">> \o escape(target)
        \o <<"\" alt=\"">> \o alt
        \o <<"\" class=\"embedded-image max-w-full h-auto rounded-lg\" loading=\"lazy\">">>

\* the placeholder block written for a note embed
NoteBlock(target, display, heading_attr) ==
    <<"<div class=\"embedded-note border-l-4 border-accent-400 pl-4 my-4 bg-obsidian-100 dark:bg-obsidian-800 rounded-r-lg p-4\" data-embed-target=\"">>
        \o escape(target) \o <<"\"">> \o heading_attr
        \o <<">\n<a href=\"/note/">> \o escape(target)
        \o <<"\" class=\"internal-link font-medium\">U+1F4C4 ">> \o display
        \o <<"</a>\n</div>">>

\* a replacement that compares the extension as it is written (for comparison)
replace_embed_case_sensitive(m) ==
    LET target   == strip(m.group1[1])
        heading  == IF Truthy(m.group2) THEN <<strip(m.group2[1])>> ELSE None
        alias    == IF Truthy(m.group3) THEN <<strip(m.group3[1])>> ELSE None
        is_image == \E ext \in image_extensions : endswith(target, ext)
    IN  IF is_image
        THEN ImgTag(target, escape(Or(alias, target)))
        ELSE IF Truthy(heading)
             THEN NoteBlock(target,
                            escape(Or(alias, target)) \o <<" > ">> \o escape(heading[1]),
                            <<" data-embed-heading=\"">> \o escape(heading[1]) \o <<"\"">>)
             ELSE NoteBlock(target, escape(Or(alias, target)), <<>>)

\* EmbedPreprocessor._replace_embed
replace_embed(m) ==
    LET target   == strip(m.group1[1])
        heading  == IF Truthy(m.group2) THEN <<strip(m.group2[1])>> ELSE None
        alias    == IF Truthy(m.group3) THEN <<strip(m.group3[1])>> ELSE None
        is_image == \E ext \in image_extensions : endswith(lower(target), ext)
    IN  IF is_image
        THEN ImgTag(target, escape(Or(alias, target)))
        ELSE IF Truthy(heading)
             THEN NoteBlock(target,
                            escape(Or(alias, target)) \o <<" > ">> \o escape(heading[1]),
                            <<" data-embed-heading=\"">> \o escape(heading[1]) \o <<"\"">>)
             ELSE NoteBlock(target, escape(Or(alias, target)), <<>>)

\* EMBED_PATTERN.sub(self._replace_embed, line) from position i on: every
\* match, left to right, gives way to its replacement
RECURSIVE EmbedSub(_, _)
EmbedSub(line, i) ==
    LET starts == {j \in i..Len(line) : EMBED_PATTERN(line, j) # None}
    IN  IF starts = {} THEN Slice(line, i, Len(line) + 1)
        ELSE LET m == EMBED_PATTERN(line, Least(starts))[1]
             IN  Slice(line, i, m.start) \o replace_embed(m) \o EmbedSub(line, m.end)

\* EmbedPreprocessor.run on one line
EmbedPreprocessor(line) == EmbedSub(line, 1)

\* how an embed target may end
Endings ==
    { <<"p", "n", "g">>, <<"P", "N", "G">>, <<"P", "n", "g">>,
      <<"j", "p", "g">>, <<"J", "P", "G">>, <<"j", "p", "e", "g">>,
      <<"J", "P", "E", "G">>, <<"g", "i", "f">>, <<"G", "I", "F">>,
      <<"w", "e", "b", "p">>, <<"W", "E", "B", "P">>, <<"s", "v", "g">>,
      <<"S", "V", "G">>, <<"b", "m", "p">>, <<"B", "M", "P">>,
      <<"m", "d">>, <<"p", "n">>, <<"p", "n", "g", "x">> }

\* the parts an embed is written from: the target is stem, "." if dot, and
\* ending
EmbedParts ==
    [stem    : {<<>>} \cup TextsUpTo({"a", ".", " "}, MaxPart),
     dot     : BOOLEAN,
     ending  : Endings,
     heading : Optional({<<"h">>}),
     alias   : Optional(TextsUpTo({"x", "&", " "}, MaxPart))]

EmbedTarget(p) == p.stem \o (IF p.dot THEN <<".">> ELSE <<>>) \o p.ending

\* ![[target(#heading)?(|alias)?]]
EmbedText(p) ==
    <<"!", "[", "[">> \o EmbedTarget(p)
        \o (IF p.heading = None THEN <<>> ELSE <<"#">> \o p.heading[1])
        \o (IF p.alias = None THEN <<>> ELSE <<"|">> \o p.alias[1])
        \o <<"]", "]">>

InitEmbed == Handed({[parts |-> p, text |-> EmbedText(p)] : p \in EmbedParts})

ApplyEmbed == Made(EmbedPreprocessor(input[1].text))

NextEmbed == ApplyEmbed

SpecEmbed == InitEmbed /\ [][NextEmbed]_vars

(* -------------------------------- tags --------------------------------- *)

MaxText == 4

Letters == {LowerCase[i] : i \in 1..26} \cup {UpperCase[i] : i \in 1..26}

Digits == {"0", "1", "2", "3", "4", "5", "6", "7", "8", "9"}

\* \w
WordChars == Letters \cup Digits \cup {"_"}

\* [a-zA-Z0-9_/-]
TagChars == Letters \cup Digits \cup {"_", "/", "-"}

\* a match of TAG_PATTERN that starts at position i, or None
TAG_PATTERN(s, i) ==
    IF /\ At(s, i) = "#"
       /\ At(s, i - 1) \notin {"#"} \cup WordChars
       /\ At(s, i + 1) \in Letters
    THEN LET e == CHOOSE j \in (i + 2)..(Len(s) + 1) :
                      /\ \A k \in (i + 2)..(j - 1) : s[k] \in TagChars
                      /\ At(s, j) \notin TagChars
         IN  <<[start |-> i, end |-> e, group1 |-> Slice(s, i + 1, e)]>>
    ELSE None

\* TagInlineProcessor.handleMatch: the <a> element; "/search?q=tag:" is kept
\* as one piece of the href
Tag_handleMatch(m) ==
    [class |-> "tag",
     href  |-> <<"/search?q=tag:">> \o m.group1,
     text  |-> <<"#">> \o m.group1]

\* what the inline tree processor of the library puts in the text for an
\* element it has stashed; it is neither "#" nor a word character
Placeholder == "STX klzzwxh ETX"

\* the library's loop over one inline pattern: the leftmost match in the
\* text is handed to handleMatch and gives way to a placeholder, and the
\* search starts again on the new text.  origin[i] is the position in the
\* text first handed over that data[i] came from; found collects the
\* elements made, each with the position of its "#".
RECURSIVE TagInline(_, _, _)
TagInline(data, origin, found) ==
    LET starts == {i \in 1..Len(data) : TAG_PATTERN(data, i) # None}
    IN  IF starts = {} THEN [data |-> data, found |-> found]
        ELSE LET m == TAG_PATTERN(data, Least(starts))[1]
             IN  TagInline(
                     Slice(data, 1, m.start) \o <<Placeholder>>
                         \o Slice(data, m.end, Len(data) + 1),
                     Slice(origin, 1, m.start) \o <<origin[m.start]>>
                         \o Slice(origin, m.end, Len(origin) + 1),
                     found \cup {[at |-> origin[m.start], el |-> Tag_handleMatch(m)]})

\* the tag processor on a text
TagInlineProcessor(s) == TagInline(s, [i \in 1..Len(s) |-> i], {})

InitTag == Handed({[text |-> s] : s \in TextsUpTo({"#", "a", "1", "/", " "}, MaxText)})

ApplyTag == Made(TagInlineProcessor(input[1].text))

NextTag == ApplyTag

SpecTag == InitTag /\ [][NextTag]_vars

(* ------------------------------ callouts ------------------------------- *)
\* Lines are texts; a line of the HTML written is a sequence of pieces as
\* for embeds.

\* CalloutPreprocessor.CALLOUT_TYPES: type -> <<icon, css class>>
CALLOUT_TYPES ==
    "note" :> <<"U+1F4DD", "callout-note">> @@
    "abstract" :> <<"U+1F4CB", "callout-note">> @@
    "summary" :> <<"U+1F4CB", "callout-note">> @@
    "tldr" :> <<"U+1F4CB", "callout-note">> @@
    "info" :> <<"U+2139 U+FE0F", "callout-info">> @@
    "todo" :> <<"U+2611 U+FE0F", "callout-info">> @@
    "tip" :> <<"U+1F4A1", "callout-tip">> @@
    "hint" :> <<"U+1F4A1", "callout-tip">> @@
    "important" :> <<"U+1F525", "callout-tip">> @@
    "success" :> <<"U+2705", "callout-tip">> @@
    "check" :> <<"U+2705", "callout-tip">> @@
    "done" :> <<"U+2705", "callout-tip">> @@
    "question" :> <<"U+2753", "callout-warning">> @@
    "help" :> <<"U+2753", "callout-warning">> @@
    "faq" :> <<"U+2753", "callout-warning">> @@
    "warning" :> <<"U+26A0 U+FE0F", "callout-warning">> @@
    "caution" :> <<"U+26A0 U+FE0F", "callout-warning">> @@
    "attention" :> <<"U+26A0 U+FE0F", "callout-warning">> @@
    "failure" :> <<"U+274C", "callout-danger">> @@
    "fail" :> <<"U+274C", "callout-danger">> @@
    "missing" :> <<"U+274C", "callout-danger">> @@
    "danger" :> <<"U+26D4", "callout-danger">> @@
    "error" :> <<"U+1F6AB", "callout-danger">> @@
    "bug" :> <<"U+1F41B", "callout-danger">> @@
    "example" :> <<"U+1F4CE", "callout-example">> @@
    "quote" :> <<"U+1F4AC", "callout-quote">> @@
    "cite" :> <<"U+1F4AC", "callout-quote">>

\* the icon and class of a type the table does not have
CalloutDefault == <<"U+1F4CC", "callout-note">>

\* the string of a text
RECURSIVE Concat(_)
Concat(s) == IF s = <<>> THEN "" ELSE Head(s) \o Concat(Tail(s))

UpperOf(c) ==
    IF \E i \in 1..26 : LowerCase[i] = c
    THEN UpperCase[CHOOSE i \in 1..26 : LowerCase[i] = c]
    ELSE c

\* str.title(): a letter is upper case after a character that is no letter
\* and lower case after a letter
title(s) ==
    [i \in 1..Len(s) |->
        IF At(s, i - 1) \in Letters THEN LowerOf(s[i]) ELSE UpperOf(s[i])]

\* where the white space that starts at position i ends
SpaceEnd(s, i) ==
    CHOOSE j \in i..(Len(s) + 1) :
        /\ \A k \in i..(j - 1) : s[k] = " "
        /\ At(s, j) # " "

\* re.match(CALLOUT_PATTERN, line): the groups, or None
CALLOUT_PATTERN(line) ==
    LET p1 == SpaceEnd(line, 2) + 2
        e1 == CHOOSE j \in p1..(Len(line) + 1) :
                  /\ \A k \in p1..(j - 1) : line[k] \in WordChars
                  /\ At(line, j) \notin WordChars
        e2 == IF At(line, e1 + 1) \in {"+", "-"} THEN e1 + 2 ELSE e1 + 1
        p3 == SpaceEnd(line, e2)
    IN  IF /\ At(line, 1) = ">"
           /\ At(line, p1 - 2) = "[" /\ At(line, p1 - 1) = "!"
           /\ e1 > p1
           /\ At(line, e1) = "]"
        THEN <<[group1 |-> Slice(line, p1, e1),
                group2 |-> IF e2 = e1 + 2 THEN <<line[e1 + 1]>> ELSE None,
                group3 |-> <<Slice(line, p3, Len(line) + 1)>>]>>
        ELSE None

\* the lines of callout_html.split("\n")
CalloutBlock(icon, css_class, heading, content_lines) ==
    << <<>>,
       <<"<div class=\"callout ", css_class, "\">">>,
       <<"<div class=\"callout-title\">", icon, " ">> \o escape(heading) \o <<"</div>">>,
       <<"<div class=\"callout-content\">">>,
       <<>> >>
      \o (IF content_lines = <<>> THEN << <<>> >> ELSE content_lines)
      \o << <<>>, <<"</div>">>, <<"</div>">>, <<>> >>

\* a header that looks its type up as it is written (for comparison)
CalloutHeader_case_sensitive(m) ==
    LET callout_type == m.group1
        heading == Or(m.group3, title(callout_type))
        known == Concat(callout_type) \in DOMAIN CALLOUT_TYPES
        pair == IF known THEN CALLOUT_TYPES[Concat(callout_type)] ELSE CalloutDefault
    IN  [icon |-> pair[1], css_class |-> pair[2], title |-> heading]

\* CalloutPreprocessor.run, from the match to the table lookup
CalloutHeader(m) ==
    LET callout_type == lower(m.group1)
        heading == Or(m.group3, title(callout_type))
        known == Concat(callout_type) \in DOMAIN CALLOUT_TYPES
        pair == IF known THEN CALLOUT_TYPES[Concat(callout_type)] ELSE CalloutDefault
    IN  [icon |-> pair[1], css_class |-> pair[2], title |-> heading]

\* the number of lines after line i that start with ">"
RECURSIVE QuoteRun(_, _)
QuoteRun(lines, i) ==
    IF i + 1 <= Len(lines) /\ At(lines[i + 1], 1) = ">"
    THEN 1 + QuoteRun(lines, i + 1)
    ELSE 0

\* CalloutPreprocessor.run from line i on
RECURSIVE CalloutRun(_, _)
CalloutRun(lines, i) ==
    IF i > Len(lines) THEN <<>>
    ELSE LET m == CALLOUT_PATTERN(lines[i])
         IN  IF m # None
             THEN LET n == QuoteRun(lines, i)
                      h == CalloutHeader(m[1])
                      content_lines ==
                          [k \in 1..n |-> strip(Slice(lines[i + k], 2, Len(lines[i + k]) + 1))]
                  IN  CalloutBlock(h.icon, h.css_class, h.title, content_lines)
                          \o CalloutRun(lines, i + n + 1)
             ELSE <<lines[i]>> \o CalloutRun(lines, i + 1)

\* CalloutPreprocessor.run
CalloutPreprocessor(lines) == CalloutRun(lines, 1)

\* type names as written in a header
TypeNames ==
    { <<"n", "o", "t", "e">>, <<"T", "i", "p">>,
      <<"W", "A", "R", "N", "I", "N", "G">>, <<"b", "u", "g">>,
      <<"Q", "u", "o", "t", "e">>, <<"f", "a", "q">>,
      <<"b", "o", "g", "u", "s">>, <<"B", "o", "g", "u", "s">>,
      <<"x", "1">>, <<"a", "_", "b">> }

\* the parts a callout is written from: a header > [!type] with an optional
\* space after ">", an optional "+" or "-", and an optional title after a
\* space; then the body lines
CalloutParts ==
    [space    : BOOLEAN,
     type     : TypeNames,
     collapse : Optional({"+", "-"}),
     title    : Optional(TextsUpTo({"T", "<", " "}, MaxPart)),
     body     : {<<>>, << <<">", " ", "b">> >>, << <<">", "b", " ">>, <<">">> >>}]

CalloutLines(p) ==
    << <<">">> \o (IF p.space THEN <<" ">> ELSE <<>>) \o <<"[", "!">> \o p.type \o <<"]">>
         \o (IF p.collapse = None THEN <<>> ELSE p.collapse)
         \o (IF p.title = None THEN <<>> ELSE <<" ">> \o p.title[1]) >>
      \o p.body

InitCallout == Handed({[parts |-> p, text |-> CalloutLines(p)] : p \in CalloutParts})

ApplyCallout == Made(CalloutPreprocessor(input[1].text))

NextCallout == ApplyCallout

SpecCallout == InitCallout /\ [][NextCallout]_vars

(* ------------------------------ cache keys ----------------------------- *)

\* the triples (vault_id, note_path, modified_at) keys are made from
Triples == VaultIds \X NotePaths \X {None, <<1>>, <<2>>}

InitKey == Handed({[first |-> a, second |-> b] : a \in Triples, b \in Triples})

\* self._make_key on both triples
ApplyKey ==
    Made([first  |-> make_key(input[1].first[1], input[1].first[2], input[1].first[3]),
          second |-> make_key(input[1].second[1], input[1].second[2], input[1].second[3])])

NextKey == ApplyKey

SpecKey == InitKey /\ [][NextKey]_vars

(* ------------------------------ task lists ----------------------------- *)

\* the longest text written after <li> in a list item
MaxItem == 4

\* re.sub(pattern, repl, text) from position i on, for a pattern that is a
\* sequence of character sets: matches are taken from the left and do not
\* overlap, each becomes repl, every other character stays
RECURSIVE re_sub(_, _, _, _)
re_sub(pattern, repl, text, i) ==
    IF i > Len(text) THEN <<>>
    ELSE IF /\ i + Len(pattern) - 1 <= Len(text)
            /\ \A k \in 1..Len(pattern) : text[i + k - 1] \in pattern[k]
         THEN <<repl>> \o re_sub(pattern, repl, text, i + Len(pattern))
         ELSE <<text[i]>> \o re_sub(pattern, repl, text, i + 1)

\* r"<li>\[ \]"
UNCHECKED_PATTERN == <<{"<"}, {"l"}, {"i"}, {">"}, {"["}, {" "}, {"]"}>>

\* r"<li>\[[xX]\]"
CHECKED_PATTERN == <<{"<"}, {"l"}, {"i"}, {">"}, {"["}, {"x", "X"}, {"]"}>>

UncheckedBox ==
    "<li class=\"task-list-item\"><input type=\"checkbox\" class=\"task-checkbox\" disabled>"

CheckedBox ==
    "<li class=\"task-list-item\"><input type=\"checkbox\" class=\"task-checkbox\" disabled checked>"

\* a task-list pass that knows the small x only (for comparison)
TaskListPostprocessor_small_x(text) ==
    re_sub(<<{"<"}, {"l"}, {"i"}, {">"}, {"["}, {"x"}, {"]"}>>, CheckedBox,
           re_sub(UNCHECKED_PATTERN, UncheckedBox, text, 1), 1)

\* TaskListPostprocessor.run
TaskListPostprocessor(text) ==
    re_sub(CHECKED_PATTERN, CheckedBox,
           re_sub(UNCHECKED_PATTERN, UncheckedBox, text, 1), 1)

\* what stands after <li> in the list items of the emitted HTML: every
\* short text of brackets, blanks, x, X and a for one item, and some pairs
ItemTexts == {<<>>} \cup TextsUpTo({"[", " ", "]", "x", "X", "a"}, MaxItem)

PairTexts ==
    {<<"[", " ", "]", "a">>, <<"[", "x", "]", "a">>, <<"[", "X", "]">>,
     <<"[", "a", "]">>, <<"a", "[", " ", "]">>, <<" ", "[", "x", "]">>, <<"a">>}

TaskItems == {<<b>> : b \in ItemTexts} \cup {<<b, c>> : b \in PairTexts, c \in PairTexts}

LiOpen == <<"<", "l", "i", ">">>

LiClose == <<"<", "/", "l", "i", ">">>

\* the emitted HTML of a list with these items
RECURSIVE ListHtml(_)
ListHtml(items) ==
    IF items = <<>> THEN <<>>
    ELSE LiOpen \o Head(items) \o LiClose \o ListHtml(Tail(items))

InitTaskList == Handed({[items |-> p, text |-> ListHtml(p)] : p \in TaskItems})

ApplyTaskList == Made(TaskListPostprocessor(input[1].text))

NextTaskList == ApplyTaskList

SpecTaskList == InitTaskList /\ [][NextTaskList]_vars

(* ---------------------------- callout bodies --------------------------- *)

\* the longest text written after ">" in a body line
MaxBody == 3

\* the lines that may follow a callout header: ">" and a short text of
\* blanks and letters
BodyLines == {<<">">> \o t : t \in {<<>>} \cup TextsUpTo({" ", "b"}, MaxBody)}

\* what a callout body is written from: up to two body lines, and the
\* lines after them, the first of which does not start with ">"
CalloutBodyParts ==
    [body : {<<>>} \cup {<<l>> : l \in BodyLines} \cup {<<l, m>> : l \in BodyLines, m \in BodyLines},
     rest : {<<>>, << <<"c">> >>, << <<"c">>, <<">", "d">> >>, << <<>>, <<">", " ", "d">> >>}]

CalloutBodyLines(p) ==
    << <<">", " ", "[", "!", "n", "o", "t", "e", "]">> >> \o p.body \o p.rest

InitCalloutBody ==
    Handed({[parts |-> p, text |-> CalloutBodyLines(p)] : p \in CalloutBodyParts})

ApplyCalloutBody == Made(CalloutPreprocessor(input[1].text))

NextCalloutBody == ApplyCalloutBody

SpecCalloutBody == InitCalloutBody /\ [][NextCalloutBody]_vars

(* ---------------------------- render pipeline -------------------------- *)
\* The render of a source written character by character.  A text is a
\* sequence of characters, "\n" among them, and of the pieces of markup the
\* stages have put in; Fence stands for the three backquotes of a code
\* fence.  The sources handed over write no language after a fence, and the
\* branch of the highlighter for a language (Pygments) is left out.

Fence == "'''"

\* str.split("\n")
RECURSIVE split(_)
split(text) ==
    LET breaks == {i \in 1..Len(text) : text[i] = "\n"}
    IN  IF breaks = {} THEN <<text>>
        ELSE <<Slice(text, 1, Least(breaks))>>
                 \o split(Slice(text, Least(breaks) + 1, Len(text) + 1))

\* "\n".join(lines)
RECURSIVE join(_)
join(lines) ==
    IF lines = <<>> THEN <<>>
    ELSE IF Len(lines) = 1 THEN lines[1]
    ELSE lines[1] \o <<"\n">> \o join(Tail(lines))

CodeOpen == "<div class=\"code-block\"><pre><code>"

CodeClose == "</code></pre></div>"

\* MarkdownService._highlight_code_blocks on such a text, from position i
\* on: a fence, a line break, the shortest text up to the next fence
RECURSIVE highlight_code_blocks_from(_, _)
highlight_code_blocks_from(content, i) ==
    LET opens == {j \in i..Len(content) :
                     /\ content[j] = Fence
                     /\ At(content, j + 1) = "\n"
                     /\ \E c \in (j + 2)..Len(content) : content[c] = Fence}
    IN  IF opens = {} THEN Slice(content, i, Len(content) + 1)
        ELSE LET j == Least(opens)
                 c == Least({c \in (j + 2)..Len(content) : content[c] = Fence})
             IN  Slice(content, i, j) \o <<CodeOpen>> \o escape(Slice(content, j + 2, c))
                     \o <<CodeClose>> \o highlight_code_blocks_from(content, c + 1)

\* EmbedPreprocessor.run
EmbedPreprocessor_run(lines) == [i \in 1..Len(lines) |-> EmbedPreprocessor(lines[i])]

\* a match of BLOCK_MATH_PATTERN (DOTALL) that starts at position i, or None
BLOCK_MATH_PATTERN(s, i) ==
    LET ends == {e \in (i + 3)..Len(s) : s[e] = "$" /\ At(s, e + 1) = "$"}
    IN  IF At(s, i) = "$" /\ At(s, i + 1) = "$" /\ ends # {}
        THEN <<[start |-> i, end |-> Least(ends) + 2, group1 |-> Slice(s, i + 2, Least(ends))]>>
        ELSE None

MathBlockOpen == "<div class=\"math-block\" data-math=\""

\* BlockMathPreprocessor.run: replace_block_math
replace_block_math(m) ==
    LET math_content == strip(m.group1)
    IN  <<"\n", MathBlockOpen>> \o escape(math_content) \o <<"\">", "\n", "$", "$">>
            \o math_content \o <<"$", "$", "\n", "</div>", "\n">>

\* re.sub(BLOCK_MATH_PATTERN, replace_block_math, text) from position i on
RECURSIVE BlockMathSub(_, _)
BlockMathSub(text, i) ==
    LET starts == {j \in i..Len(text) : BLOCK_MATH_PATTERN(text, j) # None}
    IN  IF starts = {} THEN Slice(text, i, Len(text) + 1)
        ELSE LET m == BLOCK_MATH_PATTERN(text, Least(starts))[1]
             IN  Slice(text, i, m.start) \o replace_block_math(m) \o BlockMathSub(text, m.end)

\* BlockMathPreprocessor.run
BlockMathPreprocessor(lines) == split(BlockMathSub(join(lines), 1))

\* the pieces that open a div and those that close one
DivOpens ==
    {CodeOpen, MathBlockOpen, "<div class=\"callout ", "<div class=\"callout-title\">",
     "<div class=\"callout-content\">",
     "<div class=\"embedded-note border-l-4 border-accent-400 pl-4 my-4 bg-obsidian-100 dark:bg-obsidian-800 rounded-r-lg p-4\" data-embed-target=\""}

DivCloses == {CodeClose, "</div>", "</a>\n</div>"}

\* how many divs are open after position j of a text when depth were open before it
RECURSIVE DivDepth(_, _, _)
DivDepth(text, i, j) ==
    IF j < i THEN 0
    ELSE DivDepth(text, i, j - 1)
           + (IF text[j] \in DivOpens THEN 1 ELSE IF text[j] \in DivCloses THEN -1 ELSE 0)

\* the keys the library leaves in the text for stashed raw HTML
StashKey == <<"STX wzxhzdk:0 ETX", "STX wzxhzdk:1 ETX", "STX wzxhzdk:2 ETX", "STX wzxhzdk:3 ETX">>

\* the sources stash no more blocks than there are keys here
MaxStash == Len(StashKey)

\* the library's html_block preprocessor from position i on: a div that
\* opens at the start of a line is raw HTML up to the piece that closes it;
\* it goes to the stash, and a key between blank lines takes its place.  A
\* div that opens further right in a line stays in the text.
RECURSIVE HtmlBlock(_, _, _)
HtmlBlock(parser, text, i) ==
    LET starts == {j \in i..Len(text) :
                      /\ text[j] \in DivOpens
                      /\ j = 1 \/ text[j - 1] = "\n"
                      /\ \E e \in j..Len(text) : DivDepth(text, j, e) = 0
                      /\ Len(parser.stash) < MaxStash}
    IN  IF starts = {} THEN [md |-> parser, text |-> Slice(text, i, Len(text) + 1)]
        ELSE LET j == Least(starts)
                 e == Least({e \in j..Len(text) : DivDepth(text, j, e) = 0})
                 kept == [parser EXCEPT !.stash = Append(@, Slice(text, j, e + 1))]
                 rest == HtmlBlock(kept, text, e + 1)
             IN  [md |-> rest.md,
                  text |-> Slice(text, i, j) \o <<"\n", StashKey[Len(parser.stash) + 1], "\n", "\n">>
                              \o rest.text]

\* the names of a registry in the order its stages run: higher priority first
RECURSIVE Sorted(_)
Sorted(registry) ==
    IF registry = {} THEN <<>>
    ELSE LET top == CHOOSE r \in registry : \A q \in registry : q.priority <= r.priority
         IN  <<top.name>> \o Sorted(registry \ {top})

\* one preprocessor on the lines
Preprocess(name, parser, lines) ==
    CASE name = "embed"      -> [md |-> parser, lines |-> EmbedPreprocessor_run(lines)]
      [] name = "callout"    -> [md |-> parser, lines |-> CalloutPreprocessor(lines)]
      [] name = "block_math" -> [md |-> parser, lines |-> BlockMathPreprocessor(lines)]
      [] name = "html_block" -> LET stashed(h) == [md |-> h.md, lines |-> split(h.text)]
                                IN  stashed(HtmlBlock(parser, join(lines), 1))

\* the preprocessors named, one after the other
RECURSIVE Preprocessors(_, _, _)
Preprocessors(names, parser, lines) ==
    IF names = <<>> THEN [md |-> parser, lines |-> lines]
    ELSE LET rest(p) == Preprocessors(Tail(names), p.md, p.lines)
         IN  rest(Preprocess(Head(names), parser, lines))

\* a match of INLINE_MATH_PATTERN that starts at position i, or None
INLINE_MATH_PATTERN(s, i) ==
    LET ends == {e \in (i + 2)..Len(s) :
                    s[e] = "$" /\ At(s, e - 1) # "$" /\ At(s, e + 1) # "$"}
    IN  IF /\ At(s, i) = "$" /\ At(s, i - 1) # "$" /\ At(s, i + 1) # "$"
           /\ ends # {}
        THEN <<[start |-> i, end |-> Least(ends) + 1, group1 |-> Slice(s, i + 1, Least(ends))]>>
        ELSE None

\* a match of the inline pattern registered under name
InlinePattern(name, s, i) ==
    CASE name = "wiki_link"   -> WIKI_LINK_PATTERN(s, i)
      [] name = "tag"         -> TAG_PATTERN(s, i)
      [] name = "inline_math" -> INLINE_MATH_PATTERN(s, i)

\* the element handleMatch makes, as the library writes it out: the start
\* tag in one piece, the text, the end tag
InlineElement(name, m) ==
    CASE name = "wiki_link" ->
            LET el == WikiLink_handleMatch(m)
            IN  <<"<a class=\"" \o el.class \o "\" href=\"" \o Concat(escape(el.href))
                    \o "\" data-target=\"" \o Concat(escape(el.data_target)) \o "\">">>
                  \o el.text \o <<"</a>">>
      [] name = "tag" ->
            LET el == Tag_handleMatch(m)
            IN  <<"<a href=\"" \o Concat(el.href) \o "\" class=\"" \o el.class \o "\">">>
                  \o el.text \o <<"</a>">>
      [] name = "inline_math" ->
            <<"<span class=\"math-inline\" data-math=\"" \o Concat(escape(m.group1)) \o "\">", "$">>
                  \o m.group1 \o <<"$", "</span>">>

\* the library's loop over one inline pattern from position i on: the
\* leftmost match gives way to its element and the search goes on behind
\* it; the text of the element is left for the patterns that follow
RECURSIVE Inline(_, _, _)
Inline(name, data, i) ==
    LET starts == {j \in i..Len(data) : InlinePattern(name, data, j) # None}
    IN  IF starts = {} THEN data
        ELSE LET m  == InlinePattern(name, data, Least(starts))[1]
                 el == InlineElement(name, m)
             IN  Inline(name,
                        Slice(data, 1, m.start) \o el \o Slice(data, m.end, Len(data) + 1),
                        m.start + Len(el))

\* the inline patterns named, one after the other
RECURSIVE InlinePatterns(_, _)
InlinePatterns(names, data) ==
    IF names = <<>> THEN data
    ELSE InlinePatterns(Tail(names), Inline(Head(names), data, 1))

\* the blocks of a text: the runs of lines between blank lines
RECURSIVE Blocks(_)
Blocks(lines) ==
    IF lines = <<>> THEN <<>>
    ELSE IF Head(lines) = <<>> THEN Blocks(Tail(lines))
    ELSE LET n == Least({k \in 1..Len(lines) : k = Len(lines) \/ lines[k + 1] = <<>>})
         IN  <<join(SubSeq(lines, 1, n))>> \o Blocks(SubSeq(lines, n + 1, Len(lines)))

\* the core parse of the blocks the sources give: a key of the stash stays
\* as it is, anything else is a paragraph whose text goes through the
\* inline patterns
ParseBlock(parser, block) ==
    IF Len(block) = 1 /\ \E k \in 1..MaxStash : block[1] = StashKey[k]
    THEN block
    ELSE <<"<p>">> \o InlinePatterns(Sorted(parser.inlinePatterns), block) \o <<"</p>">>

\* the library's raw_html postprocessor: every key gives way to what was stashed
RECURSIVE RawHtml(_, _)
RawHtml(parser, text) ==
    IF text = <<>> THEN <<>>
    ELSE (IF \E k \in 1..Len(parser.stash) : text[1] = StashKey[k]
          THEN parser.stash[CHOOSE k \in 1..Len(parser.stash) : text[1] = StashKey[k]]
          ELSE <<text[1]>>)
            \o RawHtml(parser, Tail(text))

\* one postprocessor on the text
Postprocess(name, parser, text) ==
    CASE name = "raw_html"  -> RawHtml(parser, text)
      [] name = "task_list" -> TaskListPostprocessor(text)

RECURSIVE Postprocessors(_, _, _)
Postprocessors(names, parser, text) ==
    IF names = <<>> THEN text
    ELSE Postprocessors(Tail(names), parser, Postprocess(Head(names), parser, text))

\* Markdown.convert on such a text: preprocessors, core parse with the
\* inline patterns, postprocessors, each registry in the order of its
\* priorities.  parsed is the text the inline patterns are handed, stages
\* the stages in the order they ran.
convert(parser, source) ==
    LET tree(pre, blocks) == join([k \in 1..Len(blocks) |-> ParseBlock(pre.md, blocks[k])])
        parse(pre) ==
            [md     |-> pre.md,
             ret    |-> Postprocessors(Sorted(parser.postprocessors), pre.md,
                                       tree(pre, Blocks(pre.lines))),
             parsed |-> join(pre.lines),
             stages |-> Sorted(parser.preprocessors) \o <<"parse">>
                           \o Sorted(parser.inlinePatterns) \o Sorted(parser.postprocessors)]
    IN  parse(Preprocessors(Sorted(parser.preprocessors), parser, split(source)))

\* MarkdownService.render on such a text
render_text(self, content) ==
    LET rendered(c) == [self   |-> [self EXCEPT !.md = c.md],
                        ret    |-> c.ret,
                        parsed |-> c.parsed,
                        stages |-> <<"reset", "highlight">> \o c.stages]
    IN  rendered(convert(md_reset(self.md), highlight_code_blocks_from(content, 1)))

\* the lines sources are written from
SourceLines ==
    { <<"!", "[", "[", "x", "]", "]">>, <<"[", "[", "x", "]", "]">>,
      <<"a", " ", "#", "t">>, <<"$", "m", "$">>, <<"$", "$", "m", "$", "$">>,
      <<"!", "[", "[", "a">>, <<"b", "]", "]">>,
      <<">", " ", "[", "!", "n", "o", "t", "e", "]">> }

\* one or two lines
SourceTexts == {<<l>> : l \in SourceLines} \cup {<<l, m>> : l \in SourceLines, m \in SourceLines}

\* what a source is written from: lines of prose (code = None), or a fence
\* around lines of code, which begins its line (lead empty) or stands
\* behind the text lead
SourceParts ==
    [lead : {<<>>}, prose : SourceTexts, code : {None}]
      \cup [lead : {<<>>}, prose : {<<>>}, code : {<<c>> : c \in SourceTexts}]
      \cup [lead : {<<"a", " ">>}, prose : {<<>>}, code : {<< <<l>> >> : l \in SourceLines}]

SourceText(p) ==
    IF p.code = None THEN join(p.prose)
    ELSE p.lead \o <<Fence, "\n">> \o join(p.code[1]) \o <<"\n", Fence>>

\* the sources a later request brings to the same service
LaterSources ==
    { p \in SourceParts :
          \/ p.code = None /\ p.prose \in { << <<"!", "[", "[", "x", "]", "]">> >>,
                                             << <<"$", "$", "m", "$", "$">> >> }
          \/ p.code = << << <<"[", "[", "x", "]", "]">> >> >> }

\* a request arrives with its source
InitPipeline == Handed(SourceParts)

\* markdown_service.render(content): the parser is left as the render leaves
\* it; output holds the source and what the render made of it
CallRenderText ==
    \E r \in {render_text(Service, SourceText(input[1]))} :
        /\ md' = r.self.md
        /\ output' = <<[parts |-> input[1], ret |-> r.ret, parsed |-> r.parsed, stages |-> r.stages]>>
        /\ UNCHANGED <<cache, hits, misses, max_size, last, accessLog, writer, gets, stats, rate,
                       tvars, nvars, input>>

\* the next request arrives at the service the last render left
NextRequest(p) ==
    /\ output # None
    /\ output[1].parts = input[1]
    /\ input' = <<p>>
    /\ UNCHANGED <<cache, hits, misses, max_size, last, accessLog, writer, gets, stats, rate, md,
                   tvars, nvars, output>>

NextPipeline ==
    \/ CallRenderText
    \/ \E p \in LaterSources : NextRequest(p)

SpecPipeline == InitPipeline /\ [][NextPipeline]_vars

(* ----------------------------- serving a note -------------------------- *)
\* GET /vault/note/c of vault a.  The file is rewritten from outside the
\* request (the vault sync, an editor); every rewrite gives it a new
\* modification time, so file[m] is the content that carries time m and the
\* last content is the one on disk.

\* how many contents the file may have held
MaxVersions == 3

\* the file is rewritten with content c
WriteNote(c) ==
    /\ Len(file) < MaxVersions
    /\ file' = Append(file, c)
    /\ UNCHANGED <<cache, hits, misses, max_size, last, accessLog, writer, gets, stats, rate, md,
                   tvars, ivars, note>>

\* VaultService.get_note: post = frontmatter.load(full_path)
LoadNote ==
    /\ note.pc = "idle"
    /\ gets < MaxGets
    /\ note' = [pc |-> "stat", content |-> file[Len(file)], modified_at |-> None]
    /\ UNCHANGED <<cache, hits, misses, max_size, last, accessLog, writer, gets, stats, rate, md,
                   tvars, ivars, file>>

\* VaultService.get_note: stat = full_path.stat() and modified_at
StatNote ==
    /\ note.pc = "stat"
    /\ note' = [note EXCEPT !.pc = "render", !.modified_at = <<Len(file)>>]
    /\ UNCHANGED <<cache, hits, misses, max_size, last, accessLog, writer, gets, stats, rate, md,
                   tvars, ivars, file>>

\* get_note of the routes: render_markdown_cached(note.content_html, vault_id,
\* note_path, note.modified_at)
RenderNote ==
    /\ note.pc = "render"
    /\ LET r == render_cached(Service, note.content, "a", "c", note.modified_at)
           k == make_key("a", "c", note.modified_at)
       IN  /\ Becomes(r.self.cache)
           /\ md' = r.self.md
           /\ last' = Call("render_cached", "a", <<"c">>, note.modified_at, note.content, r.ret,
                           r.renders, k \in Keys(cache), Removed(r.self.cache.cache), FALSE)
           /\ accessLog' = Touched(accessLog, k, r.self.cache.cache)
           /\ writer' = IF r.renders > 0
                        THEN Written(writer, k, <<"a", "c", note.modified_at>>,
                                     r.self.cache.cache)
                        ELSE Unwritten(writer, r.self.cache.cache)
    /\ gets' = gets + 1
    /\ note' = [note EXCEPT !.pc = "idle"]
    /\ UNCHANGED <<stats, rate, tvars, ivars, file>>

NextNote ==
    \/ \E c \in Contents : WriteNote(c)
    \/ LoadNote
    \/ StatNote
    \/ RenderNote

SpecNote == Init /\ [][NextNote]_vars

(* ------------------------------ properties ----------------------------- *)

IsLookup(c) == c.op \in {"get", "render_cached"}

IsStore(c) == c.op \in {"set", "render_cached"}

\* the key of a recorded get, set or render_cached call
KeyOf(c) == make_key(c.vault_id, c.note_path[1], c.modified_at)

ValueOf(c, k) == c[IndexOf(c, k)].value

SameCall(a, b) ==
    /\ a.op = b.op
    /\ a.vault_id = b.vault_id
    /\ a.note_path = b.note_path
    /\ a.modified_at = b.modified_at
    /\ a.arg = b.arg

\* C1: a render_cached call that finds no entry for its key adds one miss
\* and no hit; the same call made again right after it returns the same
\* HTML, adds one hit and no miss.
C1_RoundTrip ==
    [][ /\ (last'.op = "render_cached" /\ ~last'.present)
            => (misses' = misses + 1 /\ hits' = hits)
        /\ (last.op = "render_cached" /\ ~last.present /\ SameCall(last, last'))
            => (last'.ret = last.ret /\ hits' = hits + 1 /\ misses' = misses)
      ]_vars

C1_Witness ==
    /\ last.op = "render_cached"
    /\ last.again
    /\ last.present
    /\ hits = 1
    /\ misses = 1

\* C2: a lookup never returns an entry that was written for the same vault
\* and path under another modification time (None included), and it is a
\* miss whenever nothing stored was written under its modification time.
C2_MtimeChangeMisses ==
    /\ [](IsLookup(last) /\ last.ret # None
            => LET w == writer[KeyOf(last)]
               IN  (w[1] = last.vault_id /\ w[2] = last.note_path[1])
                      => w[3] = last.modified_at)
    /\ [][ (IsLookup(last') /\ \A k \in Keys(cache) : writer[k][3] # last'.modified_at)
              => (/\ misses' = misses + 1
                  /\ hits' = hits
                  /\ last'.op = "get" => last'.ret = None
                  /\ last'.op = "render_cached" => last'.renders = 1)
         ]_vars

C2_Witness ==
    /\ last.op = "get"
    /\ last.ret = None
    /\ \E k \in Keys(cache) :
          /\ writer[k][1] = last.vault_id
          /\ writer[k][2] = last.note_path[1]
          /\ writer[k][3] # last.modified_at
          /\ writer[k][3] # None
          /\ last.modified_at # None

\* C3: entries of two vaults with the same path and modification time do
\* not collide: a lookup never returns the entry written for the other
\* vault, and storing for one vault without evicting leaves the other
\* vault's entry and its value in place.
C3_VaultsApart ==
    /\ [](IsLookup(last) /\ last.ret # None
            => LET w == writer[KeyOf(last)]
               IN  (w[2] = last.note_path[1] /\ w[3] = last.modified_at)
                      => w[1] = last.vault_id)
    /\ [][ (IsStore(last') /\ last'.removed = 0)
              => \A k \in Keys(cache) :
                    (/\ writer[k][1] # last'.vault_id
                     /\ writer[k][2] = last'.note_path[1]
                     /\ writer[k][3] = last'.modified_at)
                    => (/\ k \in Keys(cache')
                        /\ ValueOf(cache', k) = ValueOf(cache, k)
                        /\ writer'[k] = writer[k])
         ]_vars

C3_Witness ==
    /\ last.op = "get"
    /\ last.ret # None
    /\ \E k \in Keys(cache) :
          /\ k # KeyOf(last)
          /\ writer[k][1] # last.vault_id
          /\ writer[k][2] = last.note_path[1]
          /\ writer[k][3] = last.modified_at
          /\ ValueOf(cache, k) # last.ret[1]

\* C4: storing a key that is not present into a full cache removes exactly
\* one entry, the one whose last successful get or set is oldest.
C4_LruEviction ==
    [][ (IsStore(last') /\ ~last'.present /\ Len(cache) = max_size)
           => (/\ Keys(cache) \ Keys(cache') = {Head(accessLog)}
               /\ last'.removed = 1
               /\ Len(cache') = max_size
               /\ KeyOf(last') \in Keys(cache'))
      ]_vars

C4_Witness ==
    /\ last.op = "set"
    /\ last.removed = 1
    /\ ~last.present
    /\ Len(cache) = max_size
    /\ hits >= 1

\* C5: the number of stored entries lies between 0 and max_size, and the
\* max_size reported is the capacity given at construction.
C5_CapacityBound ==
    LET st == get_stats(Self).ret[1]
    IN  /\ st.size >= 0
        /\ st.size <= st.max_size
        /\ st.max_size = MaxSize
        /\ Cardinality(Keys(cache)) = st.size

C5_Witness ==
    /\ IsStore(last)
    /\ last.removed = 1
    /\ Len(cache) = MaxSize

\* C6: render_cached runs the pipeline once on a miss, stores the result
\* under the key and returns it; on a hit it does not run the pipeline,
\* returns the stored HTML and leaves the stored value as it was.
C6_RenderOnceOnMiss ==
    [][ last'.op = "render_cached"
           => LET k == KeyOf(last')
              IN  IF last'.present
                  THEN /\ last'.renders = 0
                       /\ last'.ret = <<ValueOf(cache, k)>>
                       /\ k \in Keys(cache')
                       /\ ValueOf(cache', k) = ValueOf(cache, k)
                  ELSE /\ last'.renders = 1
                       /\ last'.ret = <<render(Service, last'.arg).ret>>
                       /\ k \in Keys(cache')
                       /\ ValueOf(cache', k) = render(Service, last'.arg).ret
      ]_vars

C6_Witness ==
    /\ last.op = "render_cached"
    /\ last.present
    /\ last.renders = 0
    /\ last.ret = <<"">>
    /\ last.arg # <<"">>

\* C7: every get adds one to hits when the key is present and one to misses
\* otherwise, set changes neither counter; so hits + misses is the number
\* of get calls since construction or the last clear, and size is the
\* number of entries stored.
C7_StatsAccounting ==
    /\ [](/\ hits + misses = gets
          /\ get_stats(Self).ret[1].hits + get_stats(Self).ret[1].misses = gets
          /\ get_stats(Self).ret[1].size = Cardinality(Keys(cache)))
    /\ [][ /\ IsLookup(last')
              => IF last'.present
                 THEN hits' = hits + 1 /\ misses' = misses
                 ELSE hits' = hits /\ misses' = misses + 1
           /\ last'.op = "set" => (hits' = hits /\ misses' = misses)
         ]_vars

C7_Witness ==
    /\ last.op = "get"
    /\ hits = 1
    /\ misses = 2
    /\ Len(cache) = 2

\* C8: right after clear the cache is empty and both counters are 0, and
\* max_size is what it was.
C8_ClearResets ==
    last.op = "clear" => get_stats(Self).ret[1] = CacheStats(0, 0, 0, MaxSize)

C8_Witness ==
    /\ last.op = "clear"
    /\ last.removed = MaxSize

\* C9 as stated: clear returns the number of entries that were stored.
C9_ClearReturnsCount ==
    last.op = "clear" => last.ret = <<last.removed>>

\* C9 amended: clear returns nothing (None), whatever number of entries it
\* removed.
C9_ClearReturnsNone ==
    last.op = "clear" => last.ret = None

C9_Witness ==
    /\ last.op = "clear"
    /\ last.removed > 0
    /\ last.ret = None

\* C10: hit_rate is 0 when hits = misses = 0 and 100 * hits / (hits + misses)
\* otherwise; it is never a division by zero and lies within [0, 100].
C10_HitRate ==
    rate # None
      => LET r == rate[1]
             h == stats.hits
             m == stats.misses
         IN  /\ r.ok
             /\ r.den > 0
             /\ (h + m = 0) => r.num = 0
             /\ (h + m > 0) => r.num * (h + m) = 100 * h * r.den
             /\ 0 <= r.num
             /\ r.num <= 100 * r.den

C10_Witness ==
    /\ rate # None
    /\ stats.hits = 1
    /\ stats.misses = 2
    /\ rate[1].num * 3 = 100 * rate[1].den

\* C11: render carries no state across calls: whatever render and
\* render_cached calls came before on the same service, render(x) returns
\* what render(x) returns on a freshly constructed service.
C11_RenderStateless ==
    last.op = "render" =>
        last.ret = <<render(MarkdownService(max_size), last.arg).ret>>

\* a render of a plain paragraph on a parser whose previous render left a
\* footnote behind
C11_Witness ==
    /\ last.op = "render"
    /\ last.arg = <<"x">>
    /\ last.ret = <<"<p>x</p>">>
    /\ \E e \in 1..Len(cache) : cache[e].value = render(MarkdownService(max_size), <<"[^2]: n">>).ret

\* C12: a render_cached call that found no entry for its key returned the
\* HTML that render returns for the same content on this service, and that
\* HTML is what the cache now holds under the key.
C12_CachedEqualsUncached ==
    (last.op = "render_cached" /\ ~last.present) =>
        /\ last.ret = <<render(Service, last.arg).ret>>
        /\ KeyOf(last) \in Keys(cache)
        /\ ValueOf(cache, KeyOf(last)) = render(Service, last.arg).ret

\* a miss on a fenced source, on a parser that had rendered a footnote before
C12_Witness ==
    /\ last.op = "render_cached"
    /\ ~last.present
    /\ last.arg = <<"'''\nc\n'''">>
    /\ last.ret = <<"<div class=\"code-block\"><pre><code>c\n</code></pre></div>">>
    /\ \E e \in 1..Len(cache) : cache[e].value = render(MarkdownService(max_size), <<"t[^1]", "[^1]: n">>).ret

\* C16: invalidate(vault_id) without a note path leaves the cache with no
\* entry of any vault and returns the number of entries it removed.
C16_InvalidateVaultClearsAll ==
    (last.op = "invalidate" /\ last.note_path = None) =>
        /\ cache = <<>>
        /\ last.ret = <<last.removed>>

\* invalidating the vault "a:b" removed two entries; only one request is
\* for that vault, so an entry of vault "a" went with it
C16_Witness ==
    /\ last.op = "invalidate"
    /\ last.note_path = None
    /\ last.vault_id = "a:b"
    /\ last.removed = 2
    /\ last.ret = <<2>>

\* C13: every cache operation runs as a whole under the one lock: whenever
\* no thread holds the lock, hits + misses is the number of get calls that
\* returned since the last clear; the statistics get_stats returns add up to
\* that number as it was when get_stats returned; and no two threads are
\* inside a cache operation at once.
C13_CacheOpsAtomic ==
    /\ lock = 0 => hits + misses = gets
    /\ \A t \in Threads :
           (frame[t].op = "get_stats" /\ pc[t] = "idle") =>
               frame[t].ret[1].hits + frame[t].ret[1].misses = frame[t].seen
    /\ Cardinality({t \in Threads :
           pc[t] \in {"get_count", "clear_hits", "clear_misses", "invalidate_clear",
                      "stats_rest"}}) <= 1

\* one thread is inside get, between reading and writing the counter, while
\* the other waits idle after a get of its own that counted a miss
C13_Witness ==
    /\ pc[1] = "get_count"
    /\ lock = 1
    /\ frame[2].op = "get"
    /\ pc[2] = "idle"
    /\ misses = 1
    /\ gets = 1

\* C14: render calls exclude each other on the parser: no two threads are
\* between the reset and the end of the conversion of a render at once.
C14_RenderExclusive ==
    Cardinality({t \in Threads : pc[t] \in {"md_parse", "md_serialize"}}) <= 1

\* C15: the cache lock is not held by a thread that is rendering, between
\* the miss and the store of its render_cached call.
C15_LockFreeWhileRendering ==
    \A t \in Rendering : lock # t

\* thread 2 has completed a get of one key that took the lock while thread 1
\* was rendering for the other key, and thread 1 is still rendering
C15_Witness ==
    /\ 1 \in Rendering
    /\ frame[1].request = <<"a", "c", <<1>>>>
    /\ pc[2] = "idle"
    /\ frame[2].op = "get"
    /\ frame[2].request = <<"a", "b:c", <<1>>>>
    /\ frame[2].during = {1}

\* C17 as stated: for a wiki-link written from target, heading and alias,
\* the display text is the alias if one is written, otherwise
\* "target > heading" if a heading is written, otherwise the target; the
\* href is the note endpoint for the target, followed by "#" and the heading
\* lower-cased with hyphens for spaces when a heading is written.
C17_WikiLinkAsWritten ==
    output # None =>
        LET p  == input[1].parts
            el == output[1][1]
            t  == strip(p.target)
        IN  /\ output[1] # None
            /\ el.text = IF p.alias # None THEN strip(p.alias[1])
                         ELSE IF p.heading # None
                              THEN t \o <<" ", ">", " ">> \o strip(p.heading[1])
                         ELSE t
            /\ el.href = <<"/note/">> \o t
                            \o (IF p.heading # None
                                THEN <<"#">> \o replace(lower(strip(p.heading[1])), " ", "-")
                                ELSE <<>>)

\* C17: target, heading and alias count without the white space around
\* them, and a heading or alias that is blank counts as not written; the
\* display text is the alias if there is one, otherwise "target > heading"
\* if there is a heading, otherwise the target; the href is the note
\* endpoint for the target, followed by "#" and the heading lower-cased with
\* hyphens for spaces when there is a heading.
C17_WikiLink ==
    output # None =>
        LET p  == input[1].parts
            el == output[1][1]
            t  == strip(p.target)
            hasHeading == p.heading # None /\ strip(p.heading[1]) # <<>>
            hasAlias   == p.alias # None /\ strip(p.alias[1]) # <<>>
        IN  /\ output[1] # None
            /\ el.text = IF hasAlias THEN strip(p.alias[1])
                         ELSE IF hasHeading
                              THEN t \o <<" ", ">", " ">> \o strip(p.heading[1])
                         ELSE t
            /\ el.href = <<"/note/">> \o t
                            \o (IF hasHeading
                                THEN <<"#">> \o replace(lower(strip(p.heading[1])), " ", "-")
                                ELSE <<>>)

\* [[a#M h|x]]: the alias is shown and the href carries the anchor m-h
C17_Witness ==
    /\ output # None
    /\ input[1].text = <<"[", "[", "a", "#", "M", " ", "h", "|", "x", "]", "]">>
    /\ output[1][1].text = <<"x">>
    /\ output[1][1].href = <<"/note/", "a", "#", "m", "-", "h">>

\* C18: an embed whose target ends, whatever the case of its letters, with
\* "." and one of png, jpg, jpeg, gif, webp, svg, bmp becomes exactly an
\* <img> on the attachment endpoint with alt = alias or target, and no
\* placeholder; an embed of any other target becomes exactly the placeholder
\* block with a link to the note, and no <img>.
C18_EmbedClassification ==
    output # None =>
        LET p      == input[1].parts
            out    == output[1]
            target == strip(EmbedTarget(p))
            alias  == IF p.alias # None /\ strip(p.alias[1]) # <<>>
                      THEN strip(p.alias[1]) ELSE target
            image  == /\ lower(p.ending) \in
                            {<<"p", "n", "g">>, <<"j", "p", "g">>,
                             <<"j", "p", "e", "g">>, <<"g", "i", "f">>,
                             <<"w", "e", "b", "p">>, <<"s", "v", "g">>,
                             <<"b", "m", "p">>}
                      /\ p.dot \/ (p.stem # <<>> /\ p.stem[Len(p.stem)] = ".")
            imgs   == {i \in 1..Len(out) : out[i] = "<img src=\"/api/vault/attachment/"}
            links  == {i \in 1..Len(out) : out[i] = ">\n<a href=\"/note/"}
        IN  IF image
            THEN /\ imgs = {1}
                 /\ links = {}
                 /\ SubSeq(out, 2, Len(target) + 1) = escape(target)
                 /\ out[Len(target) + 2] = "\" alt=\""
                 /\ SubSeq(out, Len(target) + 3, Len(out) - 1) = escape(alias)
            ELSE /\ imgs = {}
                 /\ links # {}
                 /\ out[Len(out)] = "</a>\n</div>"
                 /\ SubSeq(out, 2, Len(target) + 1) = escape(target)

\* ![[a.PNG|x&]] became an image with the alt text x&amp;
C18_Witness ==
    /\ output # None
    /\ input[1].text = <<"!", "[", "[", "a", ".", "P", "N", "G", "|", "x", "&", "]", "]">>
    /\ output[1][1] = "<img src=\"/api/vault/attachment/"
    /\ SubSeq(output[1], 7, 9) = <<"\" alt=\"", "x", "&amp;">>

\* C19: a "#" in the text becomes a tag link, with the display text "#name"
\* and the href of the tag search for name, if and only if a letter follows
\* it and neither "#" nor a word character stands right before it.
C19_TagIff ==
    output # None =>
        LET s == input[1].text
        IN  \A i \in 1..Len(s) :
                s[i] = "#" =>
                    LET made == {f \in output[1].found : f.at = i}
                    IN  /\ made # {} <=>
                              /\ At(s, i + 1) \in Letters
                              /\ At(s, i - 1) \notin {"#"} \cup WordChars
                        /\ \A f \in made :
                              /\ f.el.text[1] = "#"
                              /\ f.el.href[1] = "/search?q=tag:"
                              /\ Tail(f.el.text) = Tail(f.el.href)
                              /\ Tail(f.el.text) = Slice(s, i + 1, i + Len(f.el.text))

\* C20: every callout header yields the whole callout block, whatever its
\* type: the icon and class are those the table gives for the type in lower
\* case, and the default icon with the class callout-note when the table
\* does not have it; the title is the one written, or the type name in
\* title case when none is written.
C20_CalloutTypeResolves ==
    output # None =>
        LET p     == input[1].parts
            out   == output[1]
            name  == Concat(lower(p.type))
            known == name \in DOMAIN CALLOUT_TYPES
            given == IF p.title = None THEN <<>>
                     ELSE Slice(p.title[1], SpaceEnd(p.title[1], 1), Len(p.title[1]) + 1)
            shown == IF given # <<>> THEN given ELSE title(lower(p.type))
            n     == Len(out)
        IN  /\ n = 9 + (IF p.body = <<>> THEN 1 ELSE Len(p.body))
            /\ out[2] = <<"<div class=\"callout ",
                          IF known THEN CALLOUT_TYPES[name][2] ELSE "callout-note",
                          "\">">>
            /\ out[3] = <<"<div class=\"callout-title\">",
                          IF known THEN CALLOUT_TYPES[name][1] ELSE "U+1F4CC",
                          " ">> \o escape(shown) \o <<"</div>">>
            /\ out[4] = <<"<div class=\"callout-content\">">>
            /\ out[n - 2] = <<"</div>">>
            /\ out[n - 1] = <<"</div>">>

\* > [!Bogus]- with a body line: the default icon, callout-note and the title Bogus
C20_Witness ==
    /\ output # None
    /\ input[1].text = << <<">", " ", "[", "!", "B", "o", "g", "u", "s", "]", "-">>,
                          <<">", " ", "b">> >>
    /\ output[1][2] = <<"<div class=\"callout ", "callout-note", "\">">>
    /\ output[1][3] = <<"<div class=\"callout-title\">", "U+1F4CC", " ",
                        "B", "o", "g", "u", "s", "</div>">>
    /\ output[1][6] = <<"b">>

\* C25: a set on a key that is stored replaces its value, removes no entry
\* and leaves that key the most recently used one; when the next store of a
\* new key into the full cache of two or more entries evicts, the key just
\* set stays.
C25_SetCountsAsUse ==
    /\ [] ((last.op = "set" /\ last.present) =>
              /\ last.removed = 0
              /\ cache[Len(cache)] = [key |-> KeyOf(last), value |-> last.arg])
    /\ [][ (/\ last.op = "set" /\ last.present
            /\ IsStore(last') /\ ~last'.present
            /\ Len(cache) = max_size /\ max_size >= 2)
              => (/\ KeyOf(last) \in Keys(cache')
                  /\ Len(cache') = Len(cache)) ]_vars

\* the oldest of two stored keys was set again, then a new key came in and
\* the other key was evicted
C25_Witness ==
    /\ last.op = "set"
    /\ ~last.present
    /\ last.removed = 1
    /\ Len(accessLog) = 2
    /\ Len(cache) = max_size
    /\ writer[accessLog[1]] = <<"a", "c", None>>
    /\ hits = 0
    /\ \E i \in 1..Len(cache) : cache[i].key = accessLog[1] /\ cache[i].value = "<p>x</p>"

\* C26: two distinct triples (vault_id, note_path, modified_at) never get
\* the same cache key.
C26_KeyInjective ==
    output # None =>
        (input[1].first # input[1].second => output[1].first # output[1].second)

\* C27: a render_cached call that finds its key stored returns the stored
\* HTML whatever content it is given, runs no render (the parser is left as
\* it was), counts a hit, and leaves the stored value as it was.
C27_HitIgnoresContent ==
    [][ (last'.op = "render_cached" /\ last'.present)
           => (/\ last'.ret = <<ValueOf(cache, KeyOf(last'))>>
               /\ last'.renders = 0
               /\ md' = md
               /\ hits' = hits + 1
               /\ misses' = misses
               /\ ValueOf(cache', KeyOf(last')) = ValueOf(cache, KeyOf(last'))) ]_vars

\* a hit with the content x returned the page rendered from a footnote text
C27_Witness ==
    /\ last.op = "render_cached"
    /\ last.present
    /\ last.arg = <<"x">>
    /\ last.ret = <<render(MarkdownService(max_size), <<"t[^1]", "[^1]: n">>).ret>>
    /\ ValueOf(cache, KeyOf(last)) = last.ret[1]


\* what a list item that starts with the text b has to become
TaskItemConverted(b) ==
    IF Len(b) >= 3 /\ SubSeq(b, 1, 3) = <<"[", " ", "]">>
    THEN <<UncheckedBox>> \o SubSeq(b, 4, Len(b)) \o LiClose
    ELSE IF Len(b) >= 3 /\ b[1] = "[" /\ b[2] \in {"x", "X"} /\ b[3] = "]"
         THEN <<CheckedBox>> \o SubSeq(b, 4, Len(b)) \o LiClose
         ELSE LiOpen \o b \o LiClose

RECURSIVE TaskItemsConverted(_)
TaskItemsConverted(items) ==
    IF items = <<>> THEN <<>>
    ELSE TaskItemConverted(Head(items)) \o TaskItemsConverted(Tail(items))

\* C21: in the emitted HTML every list item that begins <li>[ ] gets a
\* disabled unchecked checkbox in place of that beginning, every one that
\* begins <li>[x] or <li>[X] a disabled checked checkbox, and every other
\* list item is left as it was.
C21_TaskListConversion ==
    output # None => output[1] = TaskItemsConverted(input[1].items)

\* a list of a checked item written with the capital X and an item with
\* another beginning was converted
C21_Witness ==
    /\ output # None
    /\ input[1].items = << <<"[", "X", "]">>, <<"a", "[", " ", "]">> >>
    /\ output[1] = <<CheckedBox>> \o LiClose \o LiOpen \o <<"a", "[", " ", "]">> \o LiClose


\* C23: after a callout header exactly the lines that follow it and start
\* with ">" are taken as the body, up to the first line that does not; each
\* body line loses its ">" and one blank after it, if there is one, and
\* keeps everything else, further blanks at its start included; the lines
\* after the body stay as they are.
C23_CalloutBody ==
    output # None =>
        LET p == input[1].parts
            unquoted(l) == IF At(l, 2) = " " THEN SubSeq(l, 3, Len(l)) ELSE SubSeq(l, 2, Len(l))
        IN  output[1] = CalloutBlock("U+1F4DD", "callout-note", <<"N", "o", "t", "e">>,
                                     [k \in 1..Len(p.body) |-> unquoted(p.body[k])])
                          \o p.rest


\* C22: the text of a fenced code block reaches the output as it was
\* written (escaped for HTML), inside the block the highlighter made of it:
\* no later stage makes anything else of it.
C22_FenceLiteral ==
    (output # None /\ output[1].parts.code # None) =>
        LET code  == escape(join(output[1].parts.code[1]) \o <<"\n">>)
            block == <<CodeOpen>> \o code \o <<CodeClose>>
            ret   == output[1].ret
        IN  \E i \in 1..Len(ret) :
                /\ i + Len(block) - 1 <= Len(ret)
                /\ SubSeq(ret, i, i + Len(block) - 1) = block

\* the stages of a render in the order they run; html_block and raw_html
\* are the library's own
StageOrder ==
    <<"reset", "highlight", "embed", "callout", "block_math", "html_block",
      "parse", "wiki_link", "tag", "inline_math", "raw_html", "task_list">>

\* an embed that EMBED_PATTERN finds within one line of the text
EmbedInLine(text) ==
    \E k \in 1..Len(split(text)) :
        \E i \in 1..Len(split(text)[k]) : EMBED_PATTERN(split(text)[k], i) # None

\* C24 as amended: every render runs the stages in the one order reset,
\* highlighter, embed, callout, block math, parse with wiki-link, tag and
\* inline math, task list; the registries are those of the construction
\* after every render; and the text the inline patterns are handed holds no
\* embed written within one line.
C24_StageOrder ==
    /\ md.preprocessors = FreshMd.preprocessors
    /\ md.inlinePatterns = FreshMd.inlinePatterns
    /\ md.postprocessors = FreshMd.postprocessors
    /\ output # None =>
          /\ output[1].stages = StageOrder
          /\ ~EmbedInLine(output[1].parsed)

\* C24 as written: the same, and the text the inline patterns are handed
\* holds no ![[...]] at all.
C24_StageOrderAsWritten ==
    /\ md.preprocessors = FreshMd.preprocessors
    /\ md.inlinePatterns = FreshMd.inlinePatterns
    /\ md.postprocessors = FreshMd.postprocessors
    /\ output # None =>
          /\ output[1].stages = StageOrder
          /\ \A i \in 1..Len(output[1].parsed) : EMBED_PATTERN(output[1].parsed, i) = None

\* an embed and a wiki-link in one paragraph: the embed is a block of its
\* own, stashed before the parse, and the link is made of the wiki-link only
C24_Witness ==
    /\ output # None
    /\ output[1].parts.prose = << <<"!", "[", "[", "x", "]", "]">>, <<"[", "[", "x", "]", "]">> >>
    /\ Len(md.stash) = 1
    /\ output[1].parsed = <<"\n", StashKey[1], "\n", "\n", "\n", "[", "[", "x", "]", "]">>
    /\ output[1].ret =
          NoteBlock(<<"x">>, <<"x">>, <<>>)
            \o <<"\n", "<p>", "<a class=\"internal-link\" href=\"/note/x\" data-target=\"x\">",
                 "x", "</a>", "</p>">>


\* C28: of the render_cached calls that overlap on one key that is not
\* stored, one counts a miss and renders: no two threads are at once past
\* a counted miss and before the end of the store of render_cached calls
\* for the same key.
C28_OneMissPerKey ==
    \A t \in Threads, u \in Threads :
        (/\ t # u
         /\ frame[t].op = "render_cached" /\ frame[u].op = "render_cached"
         /\ pc[t] \in {"md_reset", "md_parse", "md_serialize", "set"}
         /\ pc[u] \in {"md_reset", "md_parse", "md_serialize", "set"})
            => make_key(frame[t].request[1], frame[t].request[2], frame[t].request[3])
                 # make_key(frame[u].request[1], frame[u].request[2], frame[u].request[3])

\* C30: the number the route clear_render_cache reports, the size in the
\* statistics it read, is the number of entries the store held when its
\* clear_cache emptied it.
C30_ClearedCount ==
    \A t \in Threads :
        (frame[t].op = "clear_render_cache" /\ pc[t] \in {"clear_hits", "clear_misses", "idle"})
            => frame[t].ret[1].size = frame[t].removed


\* C29: every entry the note-serving path has stored under a modification
\* time holds the rendering of the content the file had at that time.
C29_EntryMatchesTimestamp ==
    \A i \in 1..Len(cache) :
        LET modified_at == writer[cache[i].key][3]
        IN  cache[i].value = render(MarkdownService(MaxSize), file[modified_at[1]]).ret

====
